---------------------------- MODULE Spec2Model ----------------------------
(***************************************************************************)
(* Model of the WPE web-process extension (extension.c): the async call    *)
(* queue with its in-flight flag, the table of pending promises, the read  *)
(* completion callback, the synchronous call channel and the handler of    *)
(* the window-object-cleared event.                                        *)
(*                                                                         *)
(* Every C function is cut into steps at its lock acquisitions and at its  *)
(* I/O calls; pc[t] is the position of thread t.  The backend and the two  *)
(* socket streams are the environment: the backend answers the requests of *)
(* a channel in the order it received them, one reply line per request.    *)
(***************************************************************************)
EXTENDS Integers, Sequences, FiniteSets, TLC

\* ------------------------------------------------------------- bounds
NumThreads == 2      \* threads that may run the extension's functions
MaxCalls == 2        \* values handed out by call_counter under Spec
MaxCallsLong == 3    \* the same under SpecLong and FairSpec
MaxThreadCalls == 2  \* the same under SpecThreads
MaxResets == 2       \* window-object-cleared events (the first one is the page load)
MaxLineLen == 2      \* bytes of a reply line on the sync channel
MaxFieldCalls == 2   \* accessor calls that take a call id under SpecFields
MaxArgs == 2         \* arguments of a stub call under SpecBindings

Threads == 1 .. NumThreads
NoThread == 0

VARIABLES
    \* program state (the file's static variables)
    async_connection,   \* TRUE iff async_connection != NULL
    sync_connection,    \* TRUE iff sync_connection != NULL
    async_mutex,        \* holder of async_mutex, NoThread when free
    promises_mutex,     \* holder of promises_mutex
    sync_mutex,         \* holder of sync_mutex
    async_queue,        \* GQueue of AsyncRequest
    async_inflight,
    pending_promises,   \* GHashTable call_id -> PendingPromise, as a set of records
    call_counter,
    \* per-thread position and locals
    pc,
    req,                \* the AsyncRequest a thread built or popped
    rctx,               \* AsyncReadContext.call_id of the callback a thread runs
    line,               \* the line read_line_finish returned to the callback
    sreq,               \* the sync request a thread sends
    response,           \* GString response of send_ipc_message_sync
    sret,               \* return value of send_ipc_message_sync
    \* the scripting contexts
    curCtx,             \* number of the current JSCContext (0: none yet)
    bindings_ctx,       \* context whose window.go stubs are installed (0: none)
    \* environment: the backend and the two socket streams
    async_wire,         \* requests written on the async channel, not yet answered
    async_stream,       \* reply lines on the async channel, not yet read
    reads,              \* read_line_async operations whose callback has not run
    sync_wire,
    sync_stream,        \* bytes on the sync channel, not yet read
    sync_eof,           \* the sync input stream has failed or ended
    \* history
    hist,               \* the events so far, in order
    \* one call of a conversion or of an accessor, looked at by itself
    arg,                \* what the function is called with
    res                 \* what it returned or did

vars == <<async_connection, sync_connection, async_mutex, promises_mutex, sync_mutex,
          async_queue, async_inflight, pending_promises, call_counter,
          pc, req, rctx, line, sreq, response, sret, curCtx, bindings_ctx,
          async_wire, async_stream, reads, sync_wire, sync_stream, sync_eof, hist,
          arg, res>>

\* ------------------------------------------------------------- values
NoReq == [id |-> -1, ctx |-> 0]
NoLine == [kind |-> "none", for |-> -1]
NoSync == [method |-> "none", id |-> -1, ctx |-> 0]
NoRet == [ok |-> FALSE, bytes |-> <<>>, nl |-> NoSync]

\* What a reply line can be (async_read_callback 241-269, Response envelope).
ReplyKinds == {"result", "error", "neither", "malformed"}

\* Reply lines on the sync channel: get_field_value and inject_bindings only
\* test for a result member (587, 885), so a line without one stands for
\* every line that is not a result.
SyncReplyKinds == {"result", "error"}

\* No function is looked at by itself.
NoArg == [fn |-> "none"]
NoRes == [done |-> FALSE]

Ev(e, i, c, w) == [ev |-> e, id |-> i, ctx |-> c, why |-> w]

SeqRemove(s, i) == [j \in 1 .. (Len(s) - 1) |-> IF j < i THEN s[j] ELSE s[j + 1]]

SeqToSet(s) == {s[i] : i \in 1 .. Len(s)}

\* g_hash_table_insert: a key already present is replaced.
HashInsert(tbl, p) == {q \in tbl : q.id # p.id} \cup {p}

\* g_hash_table_remove
HashRemove(tbl, id) == {q \in tbl : q.id # id}

\* g_hash_table_lookup(...) != NULL
HashHas(tbl, id) == \E q \in tbl : q.id = id

\* ------------------------------------------------------------- values of the scripting environment and of JSON
\* Values of the scripting environment, as the jsc_value_is_* tests see them.
JsString(x) == [k |-> "string", s |-> x]
JsNumber(x) == [k |-> "number", n |-> x]
JsBoolean(x) == [k |-> "boolean", b |-> x]
JsNull == [k |-> "null"]
JsUndefined == [k |-> "undefined"]
JsFunction == [k |-> "function"]
JsObject(ms) == [k |-> "object", members |-> ms]
JsArray(es) == [k |-> "array", elems |-> es]

\* The values the explored calls pass.
JsValues ==
    {JsString("a"), JsString(""), JsNumber(0), JsNumber(42),
     JsBoolean(TRUE), JsBoolean(FALSE), JsNull, JsUndefined, JsFunction,
     JsObject(<<[key |-> "a", val |-> JsNumber(1)]>>),
     JsArray(<<JsNumber(1), JsNumber(2)>>)}

jsc_value_is_string(v) == v.k = "string"
jsc_value_is_number(v) == v.k = "number"
jsc_value_is_boolean(v) == v.k = "boolean"
jsc_value_is_function(v) == v.k = "function"
jsc_value_is_array(v) == v.k = "array"
\* Arrays and functions are objects of the scripting environment.
jsc_value_is_object(v) == v.k \in {"object", "array", "function"}

\* The type tags field_setter_callback compares with (717-728), by family.
NumberTypes ==
    {"int", "int8", "int16", "int32", "int64",
     "uint", "uint8", "uint16", "uint32", "uint64", "float32", "float64"}

\* Declared field types: the tags the setter knows and two it does not.
FieldTypes == {"string", "bool"} \cup NumberTypes \cup {"time.Time", "[]string"}

FieldNames == {"Title"}

\* JSON nodes json-glib builds: [node |-> "value", gtype, v], "null",
\* "object" (members in order), "array".
JString(x) == [node |-> "value", gtype |-> "string", s |-> x]
JDouble(x) == [node |-> "value", gtype |-> "double", n |-> x]
JInt(x) == [node |-> "value", gtype |-> "int64", n |-> x]
JBool(x) == [node |-> "value", gtype |-> "boolean", b |-> x]
JNull == [node |-> "null"]
JObject(ms) == [node |-> "object", members |-> ms]
JArray(es) == [node |-> "array", elems |-> es]

\* The result members the explored replies carry.
JsonResults ==
    {JString("a"), JString(""), JInt(42), JInt(0), JDouble(42), JBool(TRUE),
     JBool(FALSE), JNull, JObject(<<>>), JArray(<<>>),
     JObject(<<[key |-> "a", val |-> JArray(<<JInt(1), JInt(2)>>)]>>),
     JArray(<<JString("a"), JNull, JObject(<<[key |-> "b", val |-> JBool(TRUE)]>>)>>)}

\* json_generator_to_data: the JSON text of a node, as its tree of literals.
\* The text of a number does not say which gtype the node had.
RECURSIVE json_generator_to_data(_)
json_generator_to_data(n) ==
    IF n.node = "value"
      THEN IF n.gtype = "string" THEN [lit |-> "string", s |-> n.s]
           ELSE IF n.gtype \in {"int64", "double"} THEN [lit |-> "number", n |-> n.n]
           ELSE [lit |-> "boolean", b |-> n.b]
    ELSE IF n.node = "null" THEN [lit |-> "null"]
    ELSE IF n.node = "object"
      THEN [lit |-> "object",
            members |-> [i \in DOMAIN n.members |->
                           [key |-> n.members[i].key,
                            val |-> json_generator_to_data(n.members[i].val)]]]
    ELSE [lit |-> "array",
          elems |-> [i \in DOMAIN n.elems |-> json_generator_to_data(n.elems[i])]]

\* JSON.parse of the scripting environment, on a well-formed text.
RECURSIVE JSON_parse(_)
JSON_parse(x) ==
    IF x.lit = "string" THEN JsString(x.s)
    ELSE IF x.lit = "number" THEN JsNumber(x.n)
    ELSE IF x.lit = "boolean" THEN JsBoolean(x.b)
    ELSE IF x.lit = "null" THEN JsNull
    ELSE IF x.lit = "object"
      THEN JsObject([i \in DOMAIN x.members |->
                       [key |-> x.members[i].key, val |-> JSON_parse(x.members[i].val)]])
    ELSE JsArray([i \in DOMAIN x.elems |-> JSON_parse(x.elems[i])])

\* json_node_get_double: the number as a gdouble; an int64 is converted, which
\* is exact for every integer the explored replies carry (below 2^53).
json_node_get_double(n) == n.n

\* ------------------------------------------------------------- initial state
\* The process after webkit_web_extension_initialize, before any page.
Started ==
    /\ async_connection = FALSE
    /\ sync_connection = FALSE
    /\ async_mutex = NoThread
    /\ promises_mutex = NoThread
    /\ sync_mutex = NoThread
    /\ async_queue = <<>>
    /\ async_inflight = FALSE
    /\ pending_promises = {}
    /\ call_counter = 0
    /\ pc = [t \in Threads |-> "idle"]
    /\ req = [t \in Threads |-> NoReq]
    /\ rctx = [t \in Threads |-> -1]
    /\ line = [t \in Threads |-> NoLine]
    /\ sreq = [t \in Threads |-> NoSync]
    /\ response = [t \in Threads |-> <<>>]
    /\ sret = [t \in Threads |-> NoRet]
    /\ curCtx = 0
    /\ bindings_ctx = 0
    /\ async_wire = <<>>
    /\ async_stream = <<>>
    /\ reads = <<>>
    /\ sync_wire = <<>>
    /\ sync_stream = <<>>
    /\ sync_eof = FALSE
    /\ hist = <<>>

Init ==
    /\ Started
    /\ arg = NoArg
    /\ res = NoRes


syncState == <<sync_connection, sync_mutex, sreq, response, sret,
               sync_wire, sync_stream, sync_eof>>
asyncEnv == <<async_wire, async_stream, reads>>
ctxState == <<curCtx, bindings_ctx>>
valueVars == <<arg, res>>

\* g_mutex_lock: blocks until the mutex is free.
Lock(m, t) == m = NoThread /\ m' = t

\* g_mutex_unlock
Unlock(m, t) == m = t /\ m' = NoThread

Invoke_FixedId(t, cap) ==
    /\ call_counter < cap
    /\ pc[t] = "idle"
    /\ curCtx > 0 /\ bindings_ctx = curCtx
    /\ req' = [req EXCEPT ![t] = [id |-> 0, ctx |-> curCtx]]
    /\ call_counter' = call_counter + 1
    /\ pc' = [pc EXCEPT ![t] = "enq_lock"]
    /\ UNCHANGED <<async_connection, async_mutex, promises_mutex, async_queue,
                   async_inflight, pending_promises, rctx, line, hist>>
    /\ UNCHANGED <<syncState, asyncEnv, ctxState>>
    /\ UNCHANGED valueVars

\* ------------------------------------------------------------- method stubs
\* js_call_go_method: take a call id from call_counter and build the request
\* and its promise; the stub exists only in a context whose bindings were
\* installed.  cap bounds the ids the explored runs hand out.
Invoke(t, cap) ==
    /\ call_counter < cap
    /\ pc[t] = "idle"
    /\ curCtx > 0 /\ bindings_ctx = curCtx
    /\ req' = [req EXCEPT ![t] = [id |-> call_counter, ctx |-> curCtx]]
    /\ call_counter' = call_counter + 1
    /\ pc' = [pc EXCEPT ![t] = "enq_lock"]
    /\ UNCHANGED <<async_connection, async_mutex, promises_mutex, async_queue,
                   async_inflight, pending_promises, rctx, line, hist>>
    /\ UNCHANGED <<syncState, asyncEnv, ctxState>>
    /\ UNCHANGED valueVars

\* send_ipc_message_async, g_mutex_lock(&async_mutex)
EnqLock(t) ==
    /\ pc[t] = "enq_lock"
    /\ Lock(async_mutex, t)
    /\ pc' = [pc EXCEPT ![t] = "enq"]
    /\ UNCHANGED <<async_connection, promises_mutex, async_queue, async_inflight,
                   pending_promises, call_counter, req, rctx, line, hist>>
    /\ UNCHANGED <<syncState, asyncEnv, ctxState>>
    /\ UNCHANGED valueVars

ShouldStart_Never(inflight) == FALSE

\* gboolean should_start = !async_inflight;
ShouldStart(inflight) == ~inflight

Push_Head(q, r) == <<r>> \o q

\* g_queue_push_tail
Push(q, r) == Append(q, r)

\* send_ipc_message_async: push the request, read the flag, unlock, and call
\* start_next_async_request if no request was in flight.
Enq(t) ==
    /\ pc[t] = "enq"
    /\ async_queue' = Push(async_queue, req[t])
    /\ hist' = Append(hist, Ev("enq", req[t].id, req[t].ctx, ""))
    /\ Unlock(async_mutex, t)
    /\ pc' = [pc EXCEPT ![t] = IF ShouldStart(async_inflight) THEN "sn_lock" ELSE "idle"]
    /\ req' = [req EXCEPT ![t] = NoReq]
    /\ UNCHANGED <<async_connection, promises_mutex, async_inflight,
                   pending_promises, call_counter, rctx, line>>
    /\ UNCHANGED <<syncState, asyncEnv, ctxState>>
    /\ UNCHANGED valueVars

\* ------------------------------------------------------------- start_next_async_request
SnLock(t) ==
    /\ pc[t] = "sn_lock"
    /\ Lock(async_mutex, t)
    /\ pc' = [pc EXCEPT ![t] = "sn_pop"]
    /\ UNCHANGED <<async_connection, promises_mutex, async_queue, async_inflight,
                   pending_promises, call_counter, req, rctx, line, hist>>
    /\ UNCHANGED <<syncState, asyncEnv, ctxState>>
    /\ UNCHANGED valueVars

\* if (async_inflight || !async_queue || async_queue->length == 0) return;
SnBusy(inflight, queue) == inflight \/ queue = <<>>

\* Lines 72-80: return if busy or empty, else pop the head and set the flag.
SnPop(t) ==
    /\ pc[t] = "sn_pop"
    /\ Unlock(async_mutex, t)
    /\ IF SnBusy(async_inflight, async_queue)
         THEN /\ pc' = [pc EXCEPT ![t] = "idle"]
              /\ UNCHANGED <<async_queue, async_inflight, req>>
         ELSE /\ req' = [req EXCEPT ![t] = Head(async_queue)]
              /\ async_queue' = Tail(async_queue)
              /\ async_inflight' = TRUE
              /\ pc' = [pc EXCEPT ![t] = "sn_connect"]
    /\ UNCHANGED <<async_connection, promises_mutex, pending_promises,
                   call_counter, rctx, line, hist>>
    /\ UNCHANGED <<syncState, asyncEnv, ctxState>>
    /\ UNCHANGED valueVars

\* connect_async_ipc returns TRUE: already connected, or the connect succeeds.
SnConnectOk(t) ==
    /\ pc[t] = "sn_connect"
    /\ async_connection' = TRUE
    /\ pc' = [pc EXCEPT ![t] = "sn_store_lock"]
    /\ UNCHANGED <<async_mutex, promises_mutex, async_queue, async_inflight,
                   pending_promises, call_counter, req, rctx, line, hist>>
    /\ UNCHANGED <<syncState, asyncEnv, ctxState>>
    /\ UNCHANGED valueVars

\* connect_async_ipc returns FALSE (lines 82-87): reject the popped request.
SnConnectFail(t) ==
    /\ pc[t] = "sn_connect"
    /\ ~async_connection
    /\ hist' = Append(hist, Ev("reject", req[t].id, req[t].ctx, "connect"))
    /\ req' = [req EXCEPT ![t] = NoReq]
    /\ pc' = [pc EXCEPT ![t] = "sn_fail_lock"]
    /\ UNCHANGED <<async_connection, async_mutex, promises_mutex, async_queue,
                   async_inflight, pending_promises, call_counter, rctx, line>>
    /\ UNCHANGED <<syncState, asyncEnv, ctxState>>
    /\ UNCHANGED valueVars

SnFailLock(t) ==
    /\ pc[t] = "sn_fail_lock"
    /\ Lock(async_mutex, t)
    /\ pc' = [pc EXCEPT ![t] = "sn_fail"]
    /\ UNCHANGED <<async_connection, promises_mutex, async_queue, async_inflight,
                   pending_promises, call_counter, req, rctx, line, hist>>
    /\ UNCHANGED <<syncState, asyncEnv, ctxState>>
    /\ UNCHANGED valueVars

AfterFailure_NoRetry == "idle"

\* Where start_next_async_request goes after a connect or write failure
\* (lines 91 and 126: it calls itself).
AfterFailure == "sn_lock"

\* Lines 88-91 and 123-126: clear the flag and start the next request.
SnFail(t) ==
    /\ pc[t] = "sn_fail"
    /\ async_inflight' = FALSE
    /\ Unlock(async_mutex, t)
    /\ pc' = [pc EXCEPT ![t] = AfterFailure]
    /\ UNCHANGED <<async_connection, promises_mutex, async_queue,
                   pending_promises, call_counter, req, rctx, line, hist>>
    /\ UNCHANGED <<syncState, asyncEnv, ctxState>>
    /\ UNCHANGED valueVars

SnStoreLock(t) ==
    /\ pc[t] = "sn_store_lock"
    /\ Lock(promises_mutex, t)
    /\ pc' = [pc EXCEPT ![t] = "sn_store"]
    /\ UNCHANGED <<async_connection, async_mutex, async_queue, async_inflight,
                   pending_promises, call_counter, req, rctx, line, hist>>
    /\ UNCHANGED <<syncState, asyncEnv, ctxState>>
    /\ UNCHANGED valueVars

SnStore_KeepLock(t) ==
    /\ pc[t] = "sn_store"
    /\ pending_promises' = HashInsert(pending_promises, req[t])
    /\ UNCHANGED promises_mutex
    /\ pc' = [pc EXCEPT ![t] = "sn_write"]
    /\ UNCHANGED <<async_connection, async_mutex, async_queue, async_inflight,
                   call_counter, req, rctx, line, hist>>
    /\ UNCHANGED <<syncState, asyncEnv, ctxState>>
    /\ UNCHANGED valueVars

\* Lines 96-102: store the pending promise under the call id.
SnStore(t) ==
    /\ pc[t] = "sn_store"
    /\ pending_promises' = HashInsert(pending_promises, req[t])
    /\ Unlock(promises_mutex, t)
    /\ pc' = [pc EXCEPT ![t] = "sn_write"]
    /\ UNCHANGED <<async_connection, async_mutex, async_queue, async_inflight,
                   call_counter, req, rctx, line, hist>>
    /\ UNCHANGED <<syncState, asyncEnv, ctxState>>
    /\ UNCHANGED valueVars

\* The stream has an operation outstanding: a read that was accepted and has
\* not completed.
StreamPending == \E i \in DOMAIN reads : reads[i].ok

\* Lines 104-137: the write succeeds; one read_line_async is started with a
\* read context holding the call id.  GIO refuses an operation on a stream
\* that has one outstanding: such a read completes with an error only.
SnWriteOk(t) ==
    /\ pc[t] = "sn_write"
    /\ async_wire' = Append(async_wire, req[t].id)
    /\ reads' = Append(reads, [id |-> req[t].id, ok |-> ~StreamPending])
    /\ hist' = Append(hist, Ev("write", req[t].id, req[t].ctx, ""))
    /\ req' = [req EXCEPT ![t] = NoReq]
    /\ pc' = [pc EXCEPT ![t] = "idle"]
    /\ UNCHANGED <<async_connection, async_mutex, promises_mutex, async_queue,
                   async_inflight, pending_promises, call_counter, rctx, line,
                   async_stream>>
    /\ UNCHANGED <<syncState, ctxState>>
    /\ UNCHANGED valueVars

SnWriteFail_FallsThrough(t) ==
    /\ pc[t] = "sn_write"
    /\ hist' = Append(hist, Ev("reject", req[t].id, req[t].ctx, "write"))
    /\ reads' = Append(reads, [id |-> req[t].id, ok |-> ~StreamPending])
    /\ req' = [req EXCEPT ![t] = NoReq]
    /\ pc' = [pc EXCEPT ![t] = "idle"]
    /\ UNCHANGED <<async_connection, async_mutex, promises_mutex, async_queue,
                   async_inflight, pending_promises, call_counter, rctx, line,
                   async_wire, async_stream>>
    /\ UNCHANGED <<syncState, ctxState>>
    /\ UNCHANGED valueVars

\* Lines 108-116: the write fails; reject the request.
SnWriteFail(t) ==
    /\ pc[t] = "sn_write"
    /\ hist' = Append(hist, Ev("reject", req[t].id, req[t].ctx, "write"))
    /\ pc' = [pc EXCEPT ![t] = "sn_wfail_lock"]
    /\ UNCHANGED <<async_connection, async_mutex, promises_mutex, async_queue,
                   async_inflight, pending_promises, call_counter, req, rctx, line>>
    /\ UNCHANGED <<syncState, asyncEnv, ctxState>>
    /\ UNCHANGED valueVars

SnWfailLock(t) ==
    /\ pc[t] = "sn_wfail_lock"
    /\ Lock(promises_mutex, t)
    /\ pc' = [pc EXCEPT ![t] = "sn_wfail"]
    /\ UNCHANGED <<async_connection, async_mutex, async_queue, async_inflight,
                   pending_promises, call_counter, req, rctx, line, hist>>
    /\ UNCHANGED <<syncState, asyncEnv, ctxState>>
    /\ UNCHANGED valueVars

SnWfail_KeepEntry(t) ==
    /\ pc[t] = "sn_wfail"
    /\ Unlock(promises_mutex, t)
    /\ req' = [req EXCEPT ![t] = NoReq]
    /\ pc' = [pc EXCEPT ![t] = "sn_fail_lock"]
    /\ UNCHANGED <<async_connection, async_mutex, async_queue, async_inflight,
                   pending_promises, call_counter, rctx, line, hist>>
    /\ UNCHANGED <<syncState, asyncEnv, ctxState>>
    /\ UNCHANGED valueVars

\* Lines 118-122: remove the entry just stored, free the request.
SnWfail(t) ==
    /\ pc[t] = "sn_wfail"
    /\ pending_promises' = HashRemove(pending_promises, req[t].id)
    /\ Unlock(promises_mutex, t)
    /\ req' = [req EXCEPT ![t] = NoReq]
    /\ pc' = [pc EXCEPT ![t] = "sn_fail_lock"]
    /\ UNCHANGED <<async_connection, async_mutex, async_queue, async_inflight,
                   call_counter, rctx, line, hist>>
    /\ UNCHANGED <<syncState, asyncEnv, ctxState>>
    /\ UNCHANGED valueVars

\* ------------------------------------------------------------- async_read_callback
\* read_line_finish returns a line (216-217); json_parser_load_from_data
\* decides whether it parses (241).  The read the stream accepted gets the
\* next line of the stream.
ReadLine(t) ==
    /\ pc[t] = "idle"
    /\ async_stream # <<>>
    /\ \E i \in DOMAIN reads :
         /\ reads[i].ok
         /\ rctx' = [rctx EXCEPT ![t] = reads[i].id]
         /\ reads' = SeqRemove(reads, i)
    /\ line' = [line EXCEPT ![t] = Head(async_stream)]
    /\ async_stream' = Tail(async_stream)
    /\ IF Head(async_stream).kind = "malformed"
         THEN /\ pc' = [pc EXCEPT ![t] = "cb_done_lock"]
              /\ hist' = Append(hist, Ev("drop", rctx'[t], 0, "malformed"))
         ELSE /\ pc' = [pc EXCEPT ![t] = "cb_lock"]
              /\ UNCHANGED hist
    /\ UNCHANGED <<async_connection, async_mutex, promises_mutex, async_queue,
                   async_inflight, pending_promises, call_counter, req, async_wire>>
    /\ UNCHANGED <<syncState, ctxState>>
    /\ UNCHANGED valueVars

\* read_line_finish returns NULL or an error (219): the read the stream
\* accepted fails (end of stream, a socket error), or a read the stream
\* refused completes.
ReadFail(t) ==
    /\ pc[t] = "idle"
    /\ \E i \in 1 .. Len(reads) :
         /\ rctx' = [rctx EXCEPT ![t] = reads[i].id]
         /\ reads' = SeqRemove(reads, i)
    /\ pc' = [pc EXCEPT ![t] = "cb_err_lock"]
    /\ UNCHANGED <<async_connection, async_mutex, promises_mutex, async_queue,
                   async_inflight, pending_promises, call_counter, req, line,
                   async_wire, async_stream, hist>>
    /\ UNCHANGED <<syncState, ctxState>>
    /\ UNCHANGED valueVars

CbErrLock(t) ==
    /\ pc[t] = "cb_err_lock"
    /\ Lock(promises_mutex, t)
    /\ pc' = [pc EXCEPT ![t] = "cb_err"]
    /\ UNCHANGED <<async_connection, async_mutex, async_queue, async_inflight,
                   pending_promises, call_counter, req, rctx, line, hist>>
    /\ UNCHANGED <<syncState, asyncEnv, ctxState>>
    /\ UNCHANGED valueVars

\* Where async_read_callback goes after its read-error branch (236: return).
AfterReadError == "idle"

\* Lines 221-236: reject the promise if it is still stored, remove it, return.
CbErr(t) ==
    /\ pc[t] = "cb_err"
    /\ IF HashHas(pending_promises, rctx[t])
         THEN LET p == CHOOSE q \in pending_promises : q.id = rctx[t]
              IN  hist' = Append(hist, Ev("reject", p.id, p.ctx, "read"))
         ELSE UNCHANGED hist
    /\ pending_promises' = HashRemove(pending_promises, rctx[t])
    /\ Unlock(promises_mutex, t)
    /\ rctx' = [rctx EXCEPT ![t] = -1]
    /\ pc' = [pc EXCEPT ![t] = AfterReadError]
    /\ UNCHANGED <<async_connection, async_mutex, async_queue, async_inflight,
                   call_counter, req, line>>
    /\ UNCHANGED <<syncState, asyncEnv, ctxState>>
    /\ UNCHANGED valueVars

CbLock(t) ==
    /\ pc[t] = "cb_lock"
    /\ Lock(promises_mutex, t)
    /\ pc' = [pc EXCEPT ![t] = "cb_settle"]
    /\ UNCHANGED <<async_connection, async_mutex, async_queue, async_inflight,
                   pending_promises, call_counter, req, rctx, line, hist>>
    /\ UNCHANGED <<syncState, asyncEnv, ctxState>>
    /\ UNCHANGED valueVars

\* json_object_has_member on the object of a parsed line with a payload.
json_object_has_member(obj, m) == m \in DOMAIN obj

AsyncConvert_Scalars(n) ==
    IF n.node = "value"
      THEN IF n.gtype = "string" THEN JsString(n.s)
           ELSE IF n.gtype \in {"double", "int64"}
             THEN JsNumber(json_node_get_double(n))
           ELSE JsBoolean(n.b)
    ELSE JsNull

\* Lines 269-329: the conversion of the result member.  JSON.parse is given
\* the text json_generator_to_data wrote, so the exception branch (309-313)
\* is not taken.
AsyncConvert(n) ==
    IF n.node = "value"
      THEN IF n.gtype = "string" THEN JsString(n.s)
           ELSE IF n.gtype \in {"double", "int64"}
             THEN JsNumber(json_node_get_double(n))
           ELSE IF n.gtype = "boolean" THEN JsBoolean(n.b)
           ELSE JsNull
    ELSE IF n.node \in {"object", "array"} THEN JSON_parse(json_generator_to_data(n))
    ELSE IF n.node = "null" THEN JsNull
    ELSE JsUndefined

SettleCalls_ResultFirst(obj) ==
    IF json_object_has_member(obj, "result")
      THEN [resolve |-> <<AsyncConvert(obj.result)>>, reject |-> <<>>]
    ELSE IF json_object_has_member(obj, "error")
      THEN [resolve |-> <<>>, reject |-> <<JsString(obj.error)>>]
    ELSE [resolve |-> <<>>, reject |-> <<>>]

\* Lines 263-333: the calls made on the continuations of the promise for the
\* object obj of the line: reject with the error member's string, else
\* resolve with the converted result member, else neither.
SettleCalls(obj) ==
    IF json_object_has_member(obj, "error")
      THEN [resolve |-> <<>>, reject |-> <<JsString(obj.error)>>]
    ELSE IF json_object_has_member(obj, "result")
      THEN [resolve |-> <<AsyncConvert(obj.result)>>, reject |-> <<>>]
    ELSE [resolve |-> <<>>, reject |-> <<>>]

\* The lines of the specifications that study values carry the parsed
\* object; those that study scheduling carry only its kind.
HasBody(ln) == "body" \in DOMAIN ln

\* What async_read_callback did for the line it handled.
Settlement(t) ==
    IF HashHas(pending_promises, rctx[t])
      THEN [done |-> TRUE, fn |-> "async_read_callback", id |-> rctx[t],
            found |-> TRUE, body |-> line[t].body,
            calls |-> SettleCalls(line[t].body),
            table |-> HashRemove(pending_promises, rctx[t])]
      ELSE [done |-> TRUE, fn |-> "async_read_callback", id |-> rctx[t],
            found |-> FALSE, body |-> line[t].body,
            calls |-> [resolve |-> <<>>, reject |-> <<>>],
            table |-> pending_promises]

SettleEvent_NeitherRejects(p, ln) ==
    IF ln.kind = "result" THEN Ev("resolve", p.id, p.ctx, "")
    ELSE Ev("reject", p.id, p.ctx, "remote")

\* Lines 263-333: what the callback does to the promise p for a parsed line:
\* reject on an error member, else resolve on a result member, else nothing.
SettleEvent(p, ln) ==
    IF ln.kind = "error" THEN Ev("reject", p.id, p.ctx, "remote")
    ELSE IF ln.kind = "result" THEN Ev("resolve", p.id, p.ctx, "")
    ELSE Ev("drop", p.id, p.ctx, "neither")

AfterLine_Return == "idle"

\* Where async_read_callback goes after handling a line (256, 345).
AfterLine == "cb_done_lock"

\* Lines 245-337: look the promise up by the read context's call id; without
\* an entry the line is dropped, with one the promise is settled and removed.
CbSettle(t) ==
    /\ pc[t] = "cb_settle"
    /\ IF HashHas(pending_promises, rctx[t])
         THEN LET p == CHOOSE q \in pending_promises : q.id = rctx[t]
              IN  hist' = Append(hist, SettleEvent(p, line[t]))
         ELSE hist' = Append(hist, Ev("drop", rctx[t], 0, "stale"))
    /\ pending_promises' = HashRemove(pending_promises, rctx[t])
    /\ Unlock(promises_mutex, t)
    /\ pc' = [pc EXCEPT ![t] = AfterLine]
    /\ UNCHANGED <<async_connection, async_mutex, async_queue, async_inflight,
                   call_counter, req, rctx, line>>
    /\ UNCHANGED <<syncState, asyncEnv, ctxState>>
    /\ res' = IF HasBody(line[t]) THEN Settlement(t) ELSE res
    /\ UNCHANGED arg

CbDoneLock(t) ==
    /\ pc[t] = "cb_done_lock"
    /\ Lock(async_mutex, t)
    /\ pc' = [pc EXCEPT ![t] = "cb_done"]
    /\ UNCHANGED <<async_connection, promises_mutex, async_queue, async_inflight,
                   pending_promises, call_counter, req, rctx, line, hist>>
    /\ UNCHANGED <<syncState, asyncEnv, ctxState>>
    /\ UNCHANGED valueVars

\* Lines 256-259 and 345-348: clear the flag, start the next request.
CbDone(t) ==
    /\ pc[t] = "cb_done"
    /\ async_inflight' = FALSE
    /\ Unlock(async_mutex, t)
    /\ rctx' = [rctx EXCEPT ![t] = -1]
    /\ line' = [line EXCEPT ![t] = NoLine]
    /\ pc' = [pc EXCEPT ![t] = "sn_lock"]
    /\ UNCHANGED <<async_connection, promises_mutex, async_queue,
                   pending_promises, call_counter, req, hist>>
    /\ UNCHANGED <<syncState, asyncEnv, ctxState>>
    /\ UNCHANGED valueVars

\* ------------------------------------------------------------- window_object_cleared_callback
\* The event: a new JSCContext exists (1203); the handler will fetch its
\* bindings with the fixed-id request built in inject_bindings (862-869).
StartReset(t) ==
    /\ pc[t] = "idle"
    /\ curCtx < MaxResets
    /\ curCtx' = curCtx + 1
    /\ sreq' = [sreq EXCEPT ![t] =
                  [method |-> "__getBindings", id |-> 0, ctx |-> curCtx + 1]]
    /\ hist' = Append(hist, Ev("reset", -1, curCtx + 1, ""))
    /\ pc' = [pc EXCEPT ![t] = "rs_plock"]
    /\ UNCHANGED <<async_connection, async_mutex, promises_mutex, async_queue,
                   async_inflight, pending_promises, call_counter, req, rctx, line,
                   bindings_ctx>>
    /\ UNCHANGED <<sync_connection, sync_mutex, response, sret,
                   sync_wire, sync_stream, sync_eof, asyncEnv>>
    /\ UNCHANGED valueVars

RsPLock(t) ==
    /\ pc[t] = "rs_plock"
    /\ Lock(promises_mutex, t)
    /\ pc' = [pc EXCEPT ![t] = "rs_clear"]
    /\ UNCHANGED <<async_connection, async_mutex, async_queue, async_inflight,
                   pending_promises, call_counter, req, rctx, line, hist>>
    /\ UNCHANGED <<syncState, asyncEnv, ctxState>>
    /\ UNCHANGED valueVars

ClearedTable_Keep(tbl) == tbl

\* g_hash_table_remove_all(pending_promises)
ClearedTable(tbl) == {}

RsClear_KeepLock(t) ==
    /\ pc[t] = "rs_clear"
    /\ pending_promises' = {}
    /\ pc' = [pc EXCEPT ![t] = "rs_qlock"]
    /\ UNCHANGED <<async_connection, async_mutex, promises_mutex, async_queue,
                   async_inflight, call_counter, req, rctx, line, hist>>
    /\ UNCHANGED <<syncState, asyncEnv, ctxState>>
    /\ UNCHANGED valueVars

\* Lines 1207-1215
RsClear(t) ==
    /\ pc[t] = "rs_clear"
    /\ pending_promises' = ClearedTable(pending_promises)
    /\ Unlock(promises_mutex, t)
    /\ pc' = [pc EXCEPT ![t] = "rs_qlock"]
    /\ UNCHANGED <<async_connection, async_mutex, async_queue, async_inflight,
                   call_counter, req, rctx, line, hist>>
    /\ UNCHANGED <<syncState, asyncEnv, ctxState>>
    /\ UNCHANGED valueVars

RsQLock(t) ==
    /\ pc[t] = "rs_qlock"
    /\ Lock(async_mutex, t)
    /\ pc' = [pc EXCEPT ![t] = "rs_drain"]
    /\ UNCHANGED <<async_connection, promises_mutex, async_queue, async_inflight,
                   pending_promises, call_counter, req, rctx, line, hist>>
    /\ UNCHANGED <<syncState, asyncEnv, ctxState>>
    /\ UNCHANGED valueVars

RsDrain_KeepFlag(t) ==
    /\ pc[t] = "rs_drain"
    /\ async_queue' = <<>>
    /\ hist' = hist \o [i \in 1 .. Len(async_queue) |->
                          Ev("discard", async_queue[i].id, async_queue[i].ctx, "")]
    /\ Unlock(async_mutex, t)
    /\ pc' = [pc EXCEPT ![t] = "sy_lock"]
    /\ UNCHANGED <<async_connection, promises_mutex, pending_promises,
                   async_inflight, call_counter, req, rctx, line>>
    /\ UNCHANGED <<syncState, asyncEnv, ctxState>>
    /\ UNCHANGED valueVars

DrainedQueue_Keep(q) == q

\* Lines 1220-1223: the requests the drain loop leaves in the queue.
DrainedQueue(q) == <<>>

\* Lines 1218-1226: pop and free every queued request, clear the flag; the
\* handler then goes on to inject_bindings (1232).
RsDrain(t) ==
    /\ pc[t] = "rs_drain"
    /\ async_queue' = DrainedQueue(async_queue)
    /\ hist' = hist \o [i \in 1 .. Len(async_queue) |->
                          Ev("discard", async_queue[i].id, async_queue[i].ctx, "")]
    /\ async_inflight' = FALSE
    /\ Unlock(async_mutex, t)
    /\ pc' = [pc EXCEPT ![t] = "sy_lock"]
    /\ UNCHANGED <<async_connection, promises_mutex, pending_promises,
                   call_counter, req, rctx, line>>
    /\ UNCHANGED <<syncState, asyncEnv, ctxState>>
    /\ UNCHANGED valueVars

\* ------------------------------------------------------------- field accessors
asyncState == <<async_connection, async_mutex, promises_mutex, async_queue,
                async_inflight, pending_promises, req, rctx, line,
                async_wire, async_stream, reads>>

\* get_field_value (557-577) and set_field_value (653-689): build the request
\* with an id taken from call_counter, then call send_ipc_message_sync.
StartField(t, cap) ==
    /\ call_counter < cap
    /\ pc[t] = "idle"
    /\ curCtx > 0 /\ bindings_ctx = curCtx
    /\ \E m \in {"__getField", "__setField"} :
         sreq' = [sreq EXCEPT ![t] = [method |-> m, id |-> call_counter, ctx |-> curCtx]]
    /\ call_counter' = call_counter + 1
    /\ pc' = [pc EXCEPT ![t] = "sy_lock"]
    /\ UNCHANGED <<sync_connection, sync_mutex, response, sret,
                   sync_wire, sync_stream, sync_eof>>
    /\ UNCHANGED <<asyncState, ctxState, hist>>
    /\ UNCHANGED valueVars

\* ------------------------------------------------------------- send_ipc_message_sync
SyLock_AfterAsyncDone(t) ==
    /\ pc[t] = "sy_lock"
    /\ ~async_inflight
    /\ Lock(sync_mutex, t)
    /\ response' = [response EXCEPT ![t] = <<>>]
    /\ pc' = [pc EXCEPT ![t] = "sy_connect"]
    /\ UNCHANGED <<sync_connection, sreq, sret, sync_wire, sync_stream, sync_eof>>
    /\ UNCHANGED <<asyncState, ctxState, call_counter, hist>>
    /\ UNCHANGED valueVars

SyLock_NoWait(t) ==
    /\ pc[t] = "sy_lock"
    /\ sync_mutex' = t
    /\ response' = [response EXCEPT ![t] = <<>>]
    /\ pc' = [pc EXCEPT ![t] = "sy_connect"]
    /\ UNCHANGED <<sync_connection, sreq, sret, sync_wire, sync_stream, sync_eof>>
    /\ UNCHANGED <<asyncState, ctxState, call_counter, hist>>
    /\ UNCHANGED valueVars

\* g_mutex_lock(&sync_mutex) (384)
SyLock(t) ==
    /\ pc[t] = "sy_lock"
    /\ Lock(sync_mutex, t)
    /\ response' = [response EXCEPT ![t] = <<>>]
    /\ pc' = [pc EXCEPT ![t] = "sy_connect"]
    /\ UNCHANGED <<sync_connection, sreq, sret, sync_wire, sync_stream, sync_eof>>
    /\ UNCHANGED <<asyncState, ctxState, call_counter, hist>>
    /\ UNCHANGED valueVars

\* connect_sync_ipc returns TRUE: already connected, or the connect succeeds.
SyConnectOk(t) ==
    /\ pc[t] = "sy_connect"
    /\ sync_connection' = TRUE
    /\ pc' = [pc EXCEPT ![t] = "sy_write"]
    /\ UNCHANGED <<sync_mutex, sreq, response, sret, sync_wire, sync_stream, sync_eof>>
    /\ UNCHANGED <<asyncState, ctxState, call_counter, hist>>
    /\ UNCHANGED valueVars

\* Lines 386-390: the connect fails; unlock, return NULL.
SyConnectFail(t) ==
    /\ pc[t] = "sy_connect"
    /\ ~sync_connection
    /\ Unlock(sync_mutex, t)
    /\ sret' = [sret EXCEPT ![t] = NoRet]
    /\ pc' = [pc EXCEPT ![t] = "sy_ret"]
    /\ UNCHANGED <<sync_connection, sreq, response, sync_wire, sync_stream, sync_eof>>
    /\ UNCHANGED <<asyncState, ctxState, call_counter, hist>>
    /\ UNCHANGED valueVars

\* Lines 393-405: the request line is written (to a peer that is gone, it
\* is written and lost).  The write is recorded in the history while one
\* accessor call is followed.
SyWriteOk(t) ==
    /\ pc[t] = "sy_write"
    /\ sync_wire' = IF sync_eof THEN sync_wire ELSE Append(sync_wire, sreq[t])
    /\ hist' = IF arg = NoArg THEN hist
               ELSE Append(hist, Ev("swrite", sreq[t].id, sreq[t].ctx, sreq[t].method))
    /\ pc' = [pc EXCEPT ![t] = "sy_read"]
    /\ UNCHANGED <<sync_connection, sync_mutex, sreq, response, sret,
                   sync_stream, sync_eof>>
    /\ UNCHANGED <<asyncState, ctxState, call_counter>>
    /\ UNCHANGED valueVars

SyWriteFail_KeepLock(t) ==
    /\ pc[t] = "sy_write"
    /\ sret' = [sret EXCEPT ![t] = NoRet]
    /\ pc' = [pc EXCEPT ![t] = "sy_ret"]
    /\ UNCHANGED <<sync_connection, sync_mutex, sreq, response, sync_wire,
                   sync_stream, sync_eof>>
    /\ UNCHANGED <<asyncState, ctxState, call_counter, hist>>
    /\ UNCHANGED valueVars

\* Lines 396-404: the write fails; unlock, return NULL.
SyWriteFail(t) ==
    /\ pc[t] = "sy_write"
    /\ Unlock(sync_mutex, t)
    /\ sret' = [sret EXCEPT ![t] = NoRet]
    /\ pc' = [pc EXCEPT ![t] = "sy_ret"]
    /\ UNCHANGED <<sync_connection, sreq, response, sync_wire, sync_stream, sync_eof>>
    /\ UNCHANGED <<asyncState, ctxState, call_counter, hist>>
    /\ UNCHANGED valueVars

\* Lines 409-425: one byte is read; a newline ends the loop (unlock, return
\* the bytes before it), any other byte is appended to the response.
SyReadByte(t) ==
    /\ pc[t] = "sy_read"
    /\ ~sync_eof
    /\ sync_stream # <<>>
    /\ sync_stream' = Tail(sync_stream)
    /\ IF Head(sync_stream).nl
         THEN /\ Unlock(sync_mutex, t)
              /\ sret' = [sret EXCEPT ![t] =
                            [ok |-> TRUE, bytes |-> response[t],
                             nl |-> Head(sync_stream).tok]]
              /\ pc' = [pc EXCEPT ![t] = "sy_ret"]
              /\ UNCHANGED response
         ELSE /\ response' = [response EXCEPT ![t] = Append(response[t], Head(sync_stream))]
              /\ UNCHANGED <<sync_mutex, sret, pc>>
    /\ UNCHANGED <<sync_connection, sreq, sync_wire, sync_eof>>
    /\ UNCHANGED <<asyncState, ctxState, call_counter, hist>>
    /\ UNCHANGED valueVars

SyReadFail_ReturnsPartial(t) ==
    /\ pc[t] = "sy_read"
    /\ sync_eof' = TRUE
    /\ sync_wire' = <<>>
    /\ sync_stream' = <<>>
    /\ Unlock(sync_mutex, t)
    /\ sret' = [sret EXCEPT ![t] = [ok |-> response[t] # <<>>, bytes |-> response[t],
                                    nl |-> NoSync]]
    /\ pc' = [pc EXCEPT ![t] = "sy_ret"]
    /\ UNCHANGED <<sync_connection, sreq, response>>
    /\ UNCHANGED <<asyncState, ctxState, call_counter, hist>>
    /\ UNCHANGED valueVars

SyReadFail_Disconnect(t) ==
    /\ pc[t] = "sy_read"
    /\ sync_eof' = TRUE
    /\ sync_wire' = <<>>
    /\ sync_stream' = <<>>
    /\ sync_connection' = FALSE
    /\ Unlock(sync_mutex, t)
    /\ sret' = [sret EXCEPT ![t] = NoRet]
    /\ pc' = [pc EXCEPT ![t] = "sy_ret"]
    /\ UNCHANGED <<sreq, response>>
    /\ UNCHANGED <<asyncState, ctxState, call_counter, hist>>
    /\ UNCHANGED valueVars

\* Lines 411-419: g_input_stream_read returns <= 0 (error or end of stream);
\* unlock, free the response, return NULL.  A stream that has failed or
\* ended keeps failing: the peer is gone, and what it had not yet answered
\* or delivered is lost.
SyReadFail(t) ==
    /\ pc[t] = "sy_read"
    /\ sync_eof' = TRUE
    /\ sync_wire' = <<>>
    /\ sync_stream' = <<>>
    /\ Unlock(sync_mutex, t)
    /\ sret' = [sret EXCEPT ![t] = NoRet]
    /\ pc' = [pc EXCEPT ![t] = "sy_ret"]
    /\ UNCHANGED <<sync_connection, sreq, response>>
    /\ UNCHANGED <<asyncState, ctxState, call_counter, hist>>
    /\ UNCHANGED valueVars

\* What json_parser_load_from_data and the member tests make of a line.
LineKind(bytes) == IF bytes = <<>> THEN "malformed" ELSE bytes[1].kind

\* Back in the caller.  inject_bindings (877-1043) installs window.go when
\* the reply parses and has a result member; get_field_value converts the
\* reply (579-640) and set_field_value frees it (690).
SyRet(t) ==
    /\ pc[t] = "sy_ret"
    /\ bindings_ctx' =
         IF /\ sreq[t].method = "__getBindings"
            /\ sret[t].ok
            /\ LineKind(sret[t].bytes) = "result"
            /\ sreq[t].ctx = curCtx
         THEN curCtx ELSE bindings_ctx
    /\ sreq' = [sreq EXCEPT ![t] = NoSync]
    /\ sret' = [sret EXCEPT ![t] = NoRet]
    /\ response' = [response EXCEPT ![t] = <<>>]
    /\ pc' = [pc EXCEPT ![t] = "idle"]
    /\ UNCHANGED <<sync_connection, sync_mutex, sync_wire, sync_stream, sync_eof>>
    /\ UNCHANGED <<asyncState, curCtx, call_counter, hist>>
    /\ UNCHANGED valueVars

\* ------------------------------------------------------------- field accessors, one call
TypeValid_Always(ftype, v) == TRUE

\* field_setter_callback 715-735: type_valid
TypeValid(ftype, v) ==
    IF ftype = "string" THEN jsc_value_is_string(v)
    ELSE IF ftype \in NumberTypes THEN jsc_value_is_number(v)
    ELSE IF ftype = "bool" THEN jsc_value_is_boolean(v)
    ELSE jsc_value_is_object(v) \/ jsc_value_is_array(v)

\* field_setter_callback 743-748: the kind named in the message
ObservedKind(v) ==
    IF jsc_value_is_string(v) THEN "string"
    ELSE IF jsc_value_is_number(v) THEN "number"
    ELSE IF jsc_value_is_boolean(v) THEN "boolean"
    ELSE IF jsc_value_is_function(v) THEN "function"
    ELSE IF jsc_value_is_array(v) THEN "array"
    ELSE IF jsc_value_is_object(v) THEN "object"
    ELSE "unknown"

\* field_setter_callback 739-752: the exception thrown
TypeError(name, ftype, v) ==
    [thrown |-> TRUE, what |-> "TypeError: Cannot assign to field",
     field |-> name, expected |-> ftype, got |-> ObservedKind(v)]

NoException == [thrown |-> FALSE]

\* set_field_value 668-680: the value parameter of the request
SetFieldParam(v) ==
    IF jsc_value_is_string(v) THEN JString(v.s)
    ELSE IF jsc_value_is_number(v) THEN JDouble(v.n)
    ELSE IF jsc_value_is_boolean(v) THEN JBool(v.b)
    ELSE JNull

\* set_field_value 653-687: the request
SetFieldRequest(name, v, id, c) ==
    [method |-> "__setField", id |-> id, ctx |-> c,
     params |-> <<JString(name), SetFieldParam(v)>>]

\* field_setter_callback (706-760): validate, then throw or call
\* set_field_value, which takes a call id and calls send_ipc_message_sync.
FieldSetter(t, cap) ==
    /\ call_counter < cap
    /\ pc[t] = "idle"
    /\ curCtx > 0 /\ bindings_ctx = curCtx
    /\ \E name \in FieldNames, ftype \in FieldTypes, v \in JsValues :
         /\ arg' = [fn |-> "field_setter_callback", name |-> name,
                    ftype |-> ftype, value |-> v]
         /\ IF TypeValid(ftype, v)
              THEN /\ sreq' = [sreq EXCEPT ![t] =
                                 SetFieldRequest(name, v, call_counter, curCtx)]
                   /\ call_counter' = call_counter + 1
                   /\ pc' = [pc EXCEPT ![t] = "sy_lock"]
                   /\ res' = [done |-> FALSE, exception |-> NoException,
                              value |-> JsUndefined]
              ELSE /\ res' = [done |-> TRUE, fn |-> "field_setter_callback",
                              exception |-> TypeError(name, ftype, v),
                              value |-> JsUndefined]
                   /\ UNCHANGED <<sreq, call_counter, pc>>
    /\ UNCHANGED <<sync_connection, sync_mutex, response, sret,
                   sync_wire, sync_stream, sync_eof>>
    /\ UNCHANGED <<asyncState, ctxState, hist>>

\* get_field_value 557-575: the request
GetFieldRequest(name, id, c) ==
    [method |-> "__getField", id |-> id, ctx |-> c, params |-> <<JString(name)>>]

\* field_getter_callback_typed (762-770) and get_field_value up to its call
\* of send_ipc_message_sync (547-577).
FieldGetter(t, cap) ==
    /\ call_counter < cap
    /\ pc[t] = "idle"
    /\ curCtx > 0 /\ bindings_ctx = curCtx
    /\ \E name \in FieldNames :
         /\ arg' = [fn |-> "field_getter_callback_typed", name |-> name]
         /\ sreq' = [sreq EXCEPT ![t] = GetFieldRequest(name, call_counter, curCtx)]
    /\ call_counter' = call_counter + 1
    /\ pc' = [pc EXCEPT ![t] = "sy_lock"]
    /\ res' = [done |-> FALSE, exception |-> NoException, value |-> JsUndefined]
    /\ UNCHANGED <<sync_connection, sync_mutex, response, sret,
                   sync_wire, sync_stream, sync_eof>>
    /\ UNCHANGED <<asyncState, ctxState, hist>>

\* What a reply line says: a result member, an error member, neither, or no
\* JSON at all.
FieldReplies ==
    {[kind |-> "result", result |-> j] : j \in JsonResults}
      \cup {[kind |-> "error", error |-> "boom"], [kind |-> "neither"],
            [kind |-> "malformed"]}

\* The content of the line whose bytes were read.
LineBody(bytes) == IF bytes = <<>> THEN [kind |-> "malformed"] ELSE bytes[1].body

\* get_field_value 593-627: the conversion of the result member.
GetFieldConvert(n) ==
    IF n.node = "value"
      THEN IF n.gtype = "string" THEN JsString(n.s)
           ELSE IF n.gtype \in {"double", "int64"}
             THEN JsNumber(json_node_get_double(n))
           ELSE IF n.gtype = "boolean" THEN JsBoolean(n.b)
           ELSE JsNull
    ELSE IF n.node \in {"object", "array"} THEN JSON_parse(json_generator_to_data(n))
    ELSE IF n.node = "null" THEN JsNull
    ELSE JsUndefined

\* get_field_value 579-640: what the getter returns for what
\* send_ipc_message_sync returned.  Only a result member is looked for.
GetFieldValue(ret) ==
    IF ~ret.ok THEN JsUndefined
    ELSE IF LineBody(ret.bytes).kind = "result"
      THEN GetFieldConvert(LineBody(ret.bytes).result)
    ELSE JsUndefined

\* The accessor returns: get_field_value 579-640, set_field_value 690-695.
\* Neither raises an exception.
FieldReturn(t) ==
    /\ pc[t] = "sy_ret"
    /\ arg # NoArg
    /\ res' = [done |-> TRUE, fn |-> arg.fn, exception |-> NoException,
               value |-> IF sreq[t].method = "__getField"
                           THEN GetFieldValue(sret[t]) ELSE JsUndefined,
               request |-> sreq[t], reply |-> sret[t]]
    /\ sreq' = [sreq EXCEPT ![t] = NoSync]
    /\ sret' = [sret EXCEPT ![t] = NoRet]
    /\ response' = [response EXCEPT ![t] = <<>>]
    /\ pc' = [pc EXCEPT ![t] = "idle"]
    /\ UNCHANGED <<sync_connection, sync_mutex, sync_wire, sync_stream, sync_eof>>
    /\ UNCHANGED <<asyncState, ctxState, call_counter, hist, arg>>

\* ------------------------------------------------------------- the backend
\* The backend answers the oldest unanswered async request with one line.
BackendReply ==
    /\ async_wire # <<>>
    /\ \E k \in ReplyKinds :
         async_stream' = Append(async_stream, [kind |-> k, for |-> Head(async_wire)])
    /\ async_wire' = Tail(async_wire)
    /\ UNCHANGED <<async_connection, async_mutex, promises_mutex, async_queue,
                   async_inflight, pending_promises, call_counter, pc, req, rctx,
                   line, reads, hist>>
    /\ UNCHANGED <<syncState, ctxState>>
    /\ UNCHANGED valueVars

\* The backend answers the oldest unanswered sync request: the bytes of one
\* line, then the newline.
SyncBackendReply ==
    /\ sync_wire # <<>>
    /\ ~sync_eof
    /\ \E k \in SyncReplyKinds, n \in 1 .. MaxLineLen :
         sync_stream' = sync_stream
                          \o [i \in 1 .. n |->
                                [nl |-> FALSE, tok |-> Head(sync_wire), kind |-> k]]
                          \o <<[nl |-> TRUE, tok |-> Head(sync_wire), kind |-> k]>>
    /\ sync_wire' = Tail(sync_wire)
    /\ UNCHANGED <<sync_connection, sync_mutex, sreq, response, sret, sync_eof>>
    /\ UNCHANGED <<asyncState, ctxState, call_counter, pc, hist>>
    /\ UNCHANGED valueVars

\* The objects the backend's reply lines to method calls carry.
AsyncReplies ==
    {[result |-> j] : j \in JsonResults}
      \cup {[error |-> "boom"], [error |-> ""], [error |-> "boom", result |-> JInt(42)],
            [id |-> "0"]}

\* The kind of a line with the object b.
KindOf(b) ==
    IF json_object_has_member(b, "error") THEN "error"
    ELSE IF json_object_has_member(b, "result") THEN "result"
    ELSE "neither"

\* The backend answers the oldest unanswered method call with one line.
CallsBackendReply ==
    /\ async_wire # <<>>
    /\ \/ \E b \in AsyncReplies :
            async_stream' = Append(async_stream,
                                   [kind |-> KindOf(b), for |-> Head(async_wire),
                                    body |-> b])
       \/ async_stream' = Append(async_stream,
                                 [kind |-> "malformed", for |-> Head(async_wire)])
    /\ async_wire' = Tail(async_wire)
    /\ UNCHANGED <<async_connection, async_mutex, promises_mutex, async_queue,
                   async_inflight, pending_promises, call_counter, pc, req, rctx,
                   line, reads, hist>>
    /\ UNCHANGED <<syncState, ctxState, valueVars>>

\* The backend answers the oldest unanswered accessor request with one line.
FieldsBackendReply ==
    /\ sync_wire # <<>>
    /\ ~sync_eof
    /\ \E b \in FieldReplies, n \in 1 .. MaxLineLen :
         sync_stream' = sync_stream
                          \o [i \in 1 .. n |->
                                [nl |-> FALSE, tok |-> Head(sync_wire),
                                 kind |-> IF b.kind = "result" THEN "result" ELSE "error",
                                 body |-> b]]
                          \o <<[nl |-> TRUE, tok |-> Head(sync_wire), kind |-> "result",
                                body |-> b]>>
    /\ sync_wire' = Tail(sync_wire)
    /\ UNCHANGED <<sync_connection, sync_mutex, sreq, response, sret, sync_eof>>
    /\ UNCHANGED <<asyncState, ctxState, call_counter, pc, hist, valueVars>>

\* ------------------------------------------------------------- specifications
Step(t, cap) ==
    \/ Invoke(t, cap) \/ EnqLock(t) \/ Enq(t)
    \/ SnLock(t) \/ SnPop(t) \/ SnConnectOk(t) \/ SnConnectFail(t)
    \/ SnFailLock(t) \/ SnFail(t) \/ SnStoreLock(t) \/ SnStore(t)
    \/ SnWriteOk(t) \/ SnWriteFail(t) \/ SnWfailLock(t) \/ SnWfail(t)
    \/ ReadLine(t) \/ ReadFail(t) \/ CbErrLock(t) \/ CbErr(t)
    \/ CbLock(t) \/ CbSettle(t) \/ CbDoneLock(t) \/ CbDone(t)
    \/ StartReset(t) \/ RsPLock(t) \/ RsClear(t) \/ RsQLock(t) \/ RsDrain(t)
    \/ StartField(t, cap)
    \/ SyLock(t) \/ SyConnectOk(t) \/ SyConnectFail(t) \/ SyWriteOk(t)
    \/ SyWriteFail(t) \/ SyReadByte(t) \/ SyReadFail(t) \/ SyRet(t)

Backend == BackendReply \/ SyncBackendReply

\* The handlers all run on the thread of the GLib main loop, one after another.
MainThread == 1

Next == Step(MainThread, MaxCalls) \/ Backend

Spec == Init /\ [][Next]_vars

\* The same with one more call.
NextLong == Step(MainThread, MaxCallsLong) \/ Backend

SpecLong == Init /\ [][NextLong]_vars

\* Every thread may run any function at any time; only the mutexes order them.
ThreadsStep == \E t \in Threads : Step(t, MaxThreadCalls)

NextThreads == ThreadsStep \/ Backend

SpecThreads == Init /\ [][NextThreads]_vars

\* A running handler goes on; a line that has arrived is read once the main
\* loop is idle; the backend answers what it received.
HandlerProgress == pc[MainThread] # "idle" /\ Step(MainThread, MaxCallsLong)

FairSpec ==
    /\ SpecLong
    /\ WF_vars(HandlerProgress)
    /\ WF_vars(ReadLine(MainThread))
    /\ WF_vars(BackendReply)
    /\ WF_vars(SyncBackendReply)

\* ------------------------------------------------------------- the accessors by themselves
\* The state once the first page has loaded and its bindings are installed
\* over the sync connection.
InitFields ==
    /\ async_connection = FALSE
    /\ sync_connection = TRUE
    /\ async_mutex = NoThread
    /\ promises_mutex = NoThread
    /\ sync_mutex = NoThread
    /\ async_queue = <<>>
    /\ async_inflight = FALSE
    /\ pending_promises = {}
    /\ call_counter = 0
    /\ pc = [t \in Threads |-> "idle"]
    /\ req = [t \in Threads |-> NoReq]
    /\ rctx = [t \in Threads |-> -1]
    /\ line = [t \in Threads |-> NoLine]
    /\ sreq = [t \in Threads |-> NoSync]
    /\ response = [t \in Threads |-> <<>>]
    /\ sret = [t \in Threads |-> NoRet]
    /\ curCtx = 1
    /\ bindings_ctx = 1
    /\ async_wire = <<>>
    /\ async_stream = <<>>
    /\ reads = <<>>
    /\ sync_wire = <<>>
    /\ sync_stream = <<>>
    /\ sync_eof = FALSE
    /\ hist = <<Ev("reset", -1, 1, "")>>
    /\ arg = NoArg
    /\ res = NoRes

\* Field reads and writes from the page, one after another; the connect of
\* the sync channel has succeeded before (connect_sync_ipc 148-149).
FieldsStep(t) ==
    \/ FieldSetter(t, MaxFieldCalls) \/ FieldGetter(t, MaxFieldCalls)
    \/ SyLock(t) \/ SyConnectOk(t) \/ SyWriteOk(t) \/ SyWriteFail(t)
    \/ SyReadByte(t) \/ SyReadFail(t) \/ FieldReturn(t)

NextFields == FieldsStep(MainThread) \/ FieldsBackendReply

SpecFields == InitFields /\ [][NextFields]_vars

\* ------------------------------------------------------------- sync calls from a cold start
\* send_ipc_message_sync returns to the caller that made the request:
\* inject_bindings for the schema, a field accessor otherwise.
SyncReturn(t) ==
    IF sreq[t].method = "__getBindings" THEN SyRet(t) ELSE FieldReturn(t)

\* Page loads, each with its schema request, and field accessors on the
\* bindings a page load installed; the sync channel is not connected at
\* the start.
SyncStep(t) ==
    \/ StartReset(t) \/ RsPLock(t) \/ RsClear(t) \/ RsQLock(t) \/ RsDrain(t)
    \/ FieldSetter(t, MaxFieldCalls) \/ FieldGetter(t, MaxFieldCalls)
    \/ SyLock(t) \/ SyConnectOk(t) \/ SyConnectFail(t) \/ SyWriteOk(t)
    \/ SyWriteFail(t) \/ SyReadByte(t) \/ SyReadFail(t) \/ SyncReturn(t)

NextSync == SyncStep(MainThread) \/ FieldsBackendReply

SpecSync == Init /\ [][NextSync]_vars

\* ------------------------------------------------------------- method calls and field reads, with their values
\* After the page has loaded: method stubs and field getters are called from
\* the main loop, the backend answers with lines that carry values.
CallsStep(t) ==
    \/ Invoke(t, MaxCalls) \/ EnqLock(t) \/ Enq(t)
    \/ SnLock(t) \/ SnPop(t) \/ SnConnectOk(t) \/ SnConnectFail(t)
    \/ SnFailLock(t) \/ SnFail(t) \/ SnStoreLock(t) \/ SnStore(t)
    \/ SnWriteOk(t) \/ SnWriteFail(t) \/ SnWfailLock(t) \/ SnWfail(t)
    \/ ReadLine(t) \/ ReadFail(t) \/ CbErrLock(t) \/ CbErr(t)
    \/ CbLock(t) \/ CbSettle(t) \/ CbDoneLock(t) \/ CbDone(t)
    \/ FieldGetter(t, MaxCalls)
    \/ SyLock(t) \/ SyConnectOk(t) \/ SyWriteOk(t) \/ SyWriteFail(t)
    \/ SyReadByte(t) \/ SyReadFail(t) \/ FieldReturn(t)

NextCalls == CallsStep(MainThread) \/ CallsBackendReply \/ FieldsBackendReply

SpecCalls == InitFields /\ [][NextCalls]_vars

\* ------------------------------------------------------------- inject_bindings, as a function of the schema
\* A JSON object that is iterated is the sequence of its members [key, val];
\* an object whose members are looked up by name is a record.
HasKey(obj, k) == \E i \in DOMAIN obj : obj[i].key = k
MemberOf(obj, k) == obj[CHOOSE i \in DOMAIN obj : obj[i].key = k].val

RECURSIVE Flatten(_)
Flatten(ss) == IF ss = <<>> THEN <<>> ELSE Head(ss) \o Flatten(Tail(ss))

\* jsc_value_new_object + jsc_value_object_set_property at a path below the
\* global object.
NewObject(path) == [at |-> path, kind |-> "object"]

\* Lines 932-943: the stub of a method of a struct; its user data is
\* g_strdup(method_name).
MethodInstalls(path, sd) ==
    IF json_object_has_member(sd, "methods")
      THEN [i \in DOMAIN sd.methods |->
              [at |-> Append(path, sd.methods[i].name), kind |-> "function",
               user_data |-> sd.methods[i].name]]
      ELSE <<>>

\* Lines 953-966 and inject_field_property 784-849: Object.defineProperty
\* with a getter and a setter that hold the field's name and type.
FieldInstalls(path, sd) ==
    IF json_object_has_member(sd, "fields")
      THEN [i \in DOMAIN sd.fields |->
              [at |-> Append(path, sd.fields[i].name), kind |-> "accessor",
               field_name |-> sd.fields[i].name, field_type |-> sd.fields[i].type]]
      ELSE <<>>

\* Lines 909-972: one struct of a package.
StructInstalls(pkg, st) ==
    <<NewObject(<<"go", pkg, st.key>>)>>
      \o MethodInstalls(<<"go", pkg, st.key>>, st.val)
      \o FieldInstalls(<<"go", pkg, st.key>>, st.val)

\* Lines 894-975: every member of the schema is a package under window.go.
PkgInstalls(p) ==
    <<NewObject(<<"go", p.key>>)>>
      \o Flatten([i \in DOMAIN p.val |-> StructInstalls(p.key, p.val[i])])

\* Lines 1003-1026: the stubs of a namespace of "strux"; the user data is
\* g_strdup_printf("strux.%s.%s", strux_namespace, method_name).
StruxMethodInstalls(ns) ==
    IF json_object_has_member(ns.val, "methods")
      THEN [i \in DOMAIN ns.val.methods |->
              [at |-> <<"strux", ns.key, ns.val.methods[i].name>>, kind |-> "function",
               user_data |-> "strux." \o ns.key \o "." \o ns.val.methods[i].name]]
      ELSE <<>>

\* Lines 978-1039: the member "strux" of the schema, under window.strux.
StruxInstalls(bindings) ==
    IF HasKey(bindings, "strux")
      THEN <<NewObject(<<"strux">>)>>
             \o Flatten([i \in DOMAIN MemberOf(bindings, "strux") |->
                           <<NewObject(<<"strux", MemberOf(bindings, "strux")[i].key>>)>>
                             \o StruxMethodInstalls(MemberOf(bindings, "strux")[i])])
      ELSE <<>>

\* Setting a property replaces what the object had under that name.
SetProperty(g, x) == {y \in g : y.at # x.at} \cup {x}

RECURSIVE InstallAll(_, _)
InstallAll(g, xs) ==
    IF xs = <<>> THEN g ELSE InstallAll(SetProperty(g, Head(xs)), Tail(xs))

\* inject_bindings 886-1042: what is installed below the global object for
\* the schema of the reply, in the order of the code.
InjectedGraph(bindings) ==
    InstallAll({},
               <<NewObject(<<"go">>)>>
                 \o Flatten([i \in DOMAIN bindings |-> PkgInstalls(bindings[i])])
                 \o StruxInstalls(bindings))

\* The argument lists the explored stub calls pass.
ArgLists == UNION {[1 .. n -> JsValues] : n \in 0 .. MaxArgs}

StubParam_NoBooleans(v) ==
    IF jsc_value_is_string(v) THEN JString(v.s)
    ELSE IF jsc_value_is_number(v) THEN JDouble(v.n)
    ELSE JNull

\* js_call_go_method 462-476: the element of params built for one argument.
StubParam(v) ==
    IF jsc_value_is_string(v) THEN JString(v.s)
    ELSE IF jsc_value_is_number(v) THEN JDouble(v.n)
    ELSE IF jsc_value_is_boolean(v) THEN JBool(v.b)
    ELSE JNull

\* js_call_go_method 440-481: the request of a stub called with the
\* arguments args; go_method_callback_variadic 527 hands it the stub's user
\* data as the method name, and the loop at 459 appends one element per
\* argument.
StubRequest(stub, id, args) ==
    [id |-> id, method |-> stub.user_data,
     params |-> [i \in 1 .. Len(args) |-> StubParam(args[i])]]

\* The schemas explored: package "main" with no struct or the struct App
\* (no, one or two methods; no fields member, no field or one field), then
\* nothing, a second package, or the namespace "strux" with "boot".
Schemas ==
    LET MethodLists == {<<>>, <<[name |-> "A"]>>, <<[name |-> "A"], [name |-> "B"]>>}
        FieldLists == {<<>>, <<[name |-> "Title", type |-> "string"]>>}
        StructDatas ==
            {[methods |-> m, fields |-> f] : m \in MethodLists, f \in FieldLists}
              \cup {[methods |-> m] : m \in MethodLists}
        MainPkgs == {<<>>} \cup {<<[key |-> "App", val |-> sd]>> : sd \in StructDatas}
    IN  {<<[key |-> "main", val |-> p]>> : p \in MainPkgs}
          \cup {<<[key |-> "main", val |-> p],
                  [key |-> "lib",
                   val |-> <<[key |-> "App", val |-> [methods |-> <<[name |-> "A"]>>]]>>]>> :
                   p \in MainPkgs}
          \cup {<<[key |-> "main", val |-> p],
                  [key |-> "strux",
                   val |-> <<[key |-> "boot", val |-> [methods |-> m]]>>]>> :
                   p \in MainPkgs, m \in MethodLists}

InitBindings ==
    /\ Started
    /\ arg \in {[fn |-> "inject_bindings", bindings |-> b] : b \in Schemas}
    /\ res = NoRes

\* inject_bindings on the schema of the __getBindings reply.
InjectBindings ==
    /\ arg.fn = "inject_bindings" /\ ~res.done
    /\ res' = [done |-> TRUE, fn |-> "inject_bindings",
               graph |-> InjectedGraph(arg.bindings)]
    /\ UNCHANGED <<syncState, asyncState, ctxState, call_counter, pc, hist, arg>>

\* The page calls one of the installed stubs with some arguments: the
\* request it builds.  One call is followed.
CallStub ==
    /\ res.done /\ res.fn = "inject_bindings"
    /\ \E x \in res.graph, a \in ArgLists :
         /\ x.kind = "function"
         /\ res' = [done |-> TRUE, fn |-> "go_method_callback_variadic",
                    graph |-> res.graph, stub |-> x, args |-> a,
                    request |-> StubRequest(x, call_counter, a)]
    /\ UNCHANGED <<syncState, asyncState, ctxState, call_counter, pc, hist, arg>>

NextBindings == InjectBindings \/ CallStub

SpecBindings == InitBindings /\ [][NextBindings]_vars

\* ------------------------------------------------------------- reading the history
\* The call ids call_counter can hand out.
Ids == 0 .. (MaxCallsLong - 1)

IdxOf(e, i) == {k \in DOMAIN hist : hist[k].ev = e /\ hist[k].id = i}

Has(e, i) == IdxOf(e, i) # {}

SettleIdx(i) == {k \in DOMAIN hist : hist[k].id = i /\ hist[k].ev \in {"resolve", "reject"}}

Settled(i) == SettleIdx(i) # {}

\* The read completion of call i handled its reply line: the continuation
\* was settled, or the line was dropped.
HandledIdx(i) == {k \in DOMAIN hist : hist[k].id = i
                                       /\ hist[k].ev \in {"resolve", "reject", "drop"}}

\* No handler is running.
Quiescent == \A t \in Threads : pc[t] = "idle"

\* Requests written on the async channel whose reply no read has consumed.
Unconsumed == Len(async_wire) + Len(async_stream)

\* ------------------------------------------------------------- claims
\* C1: at most one async request has been written to the async channel and
\* not had its reply consumed by a read completion, in every reachable state
\* (stub invocations, replies, transport failures and context resets
\* included).
C1_AtMostOneInFlight == Unconsumed <= 1

\* C7: whenever no handler is running, the in-flight flag is true iff exactly
\* one request has been written whose read has not completed yet.
C7_FlagIffOneOutstanding == Quiescent => (async_inflight <=> Len(reads) = 1)

FirstIdx(e, i) == CHOOSE k \in IdxOf(e, i) : \A j \in IdxOf(e, i) : k <= j

\* Call i was enqueued before call j, by a stub of the same context.
Before(i, j) ==
    /\ Has("enq", i) /\ Has("enq", j)
    /\ FirstIdx("enq", i) < FirstIdx("enq", j)
    /\ hist[FirstIdx("enq", i)].ctx = hist[FirstIdx("enq", j)].ctx

\* C3: for two async calls of the same context, the later call's request is
\* never written before the earlier call's continuation has been settled.
\* Stated in the reading most favourable to the code: a reply line dropped
\* as a protocol violation counts like a settlement of the earlier call.
C3_SerializedPerContext ==
    \A i, j \in Ids :
        (Before(i, j) /\ Has("write", j)) =>
            \E k \in HandledIdx(i) : k < FirstIdx("write", j)

\* C5: no error aborts the queue: once no handler is running and no read is
\* outstanding (nothing is left that could wake the queue), the in-flight
\* flag is false and no request is left in the queue.
C5_NoErrorStallsQueue ==
    (Quiescent /\ reads = <<>>) => (~async_inflight /\ async_queue = <<>>)

\* ------------------------------------------------------------- C2
\* A connect, write or read failure, a reply line that settles nothing, or a
\* context reset after the first call.
FaultIdx ==
    {k \in DOMAIN hist :
        \/ hist[k].ev \in {"drop", "discard"}
        \/ hist[k].ev = "reject" /\ hist[k].why # "remote"
        \/ hist[k].ev = "reset" /\ \E j \in 1 .. (k - 1) : hist[j].ev = "enq"}

NoFault == FaultIdx = {}

\* Requests are written, and continuations settled, in the order of enqueueing.
InSubmissionOrder ==
    \A i, j \in Ids :
        (Has("enq", i) /\ Has("enq", j) /\ FirstIdx("enq", i) < FirstIdx("enq", j)) =>
            /\ Has("write", j) => (Has("write", i) /\ FirstIdx("write", i) < FirstIdx("write", j))
            /\ \A k \in SettleIdx(j) : \E m \in SettleIdx(i) : m < k

\* One request in flight at a time: never two, and exactly one while a call
\* waits for its reply.
OneInFlight ==
    /\ Unconsumed <= 1
    /\ Len(reads) <= 1
    /\ (Quiescent /\ \E i \in Ids : Has("enq", i) /\ ~Settled(i)) =>
           (Len(reads) = 1 /\ async_inflight)

\* C2: with a transport that never fails and a backend that answers every
\* request with a well-formed reply, the requests of the enqueued calls are
\* written in submission order, one is in flight at a time, and every
\* continuation is eventually settled, in submission order.
C2_FifoSettlement ==
    /\ [](NoFault => (InSubmissionOrder /\ OneInFlight))
    /\ \A i \in Ids : Has("enq", i) ~> (Settled(i) \/ ~NoFault)

\* Three calls were enqueued before the first reply was handled, and all
\* are settled.
C2_Witness ==
    /\ NoFault
    /\ call_counter = MaxCallsLong
    /\ \A i \in Ids : Has("enq", i) /\ Settled(i)
    /\ \A i, j \in Ids : \A k \in SettleIdx(j) : FirstIdx("enq", i) < k

\* ------------------------------------------------------------- C4
\* C4: while the async endpoint has never been reachable, a handler that is
\* running can always go on, and once no handler is running the queue is
\* empty, the in-flight flag is false and the failure continuation of every
\* enqueued call (not discarded by a reset) has been invoked, once.
C4_UnreachableDrainsQueue ==
    ~async_connection =>
        /\ ~Quiescent => ENABLED ThreadsStep
        /\ Quiescent =>
             /\ async_queue = <<>>
             /\ ~async_inflight
             /\ \A i \in Ids :
                  (Has("enq", i) /\ ~Has("discard", i)) =>
                      /\ Cardinality(SettleIdx(i)) = 1
                      /\ \A k \in SettleIdx(i) :
                           hist[k].ev = "reject" /\ hist[k].why = "connect"

\* Two calls were rejected for the failed connect, the second one having
\* been queued behind the first.
C4_Witness ==
    /\ ~async_connection /\ Quiescent
    /\ \E i, j \in Ids :
         /\ i # j
         /\ Has("reject", i) /\ Has("reject", j)
         /\ Has("enq", j) /\ FirstIdx("enq", j) < FirstIdx("reject", i)
         /\ FirstIdx("reject", i) < FirstIdx("reject", j)

\* ------------------------------------------------------------- C6
\* Thread t is in async_read_callback, handling a line.
InCallback(t) == pc[t] \in {"cb_lock", "cb_settle", "cb_done_lock", "cb_done"}

\* C6: a read completion that got a reply line (with an error, a result,
\* neither, malformed, or for a call id without an entry) leaves the callback
\* only by clearing the in-flight flag and entering start_next.
C6_LineClearsFlagAndDrains ==
    /\ [](\A t \in Threads : line[t] # NoLine => InCallback(t))
    /\ [][\A t \in Threads :
            (InCallback(t) /\ ~InCallback(t)') =>
                (~async_inflight' /\ pc'[t] = "sn_lock")]_vars

\* The callback has just handled a line that settled nothing (neither
\* member, or no entry for the call id) and enters start_next with the flag
\* cleared.
C6_Witness ==
    /\ pc[MainThread] = "sn_lock"
    /\ ~async_inflight
    /\ hist # <<>>
    /\ hist[Len(hist)].ev = "drop"
    /\ \/ hist[Len(hist)].why = "stale"
       \/ hist[Len(hist)].why = "neither" /\ async_queue # <<>>

\* ------------------------------------------------------------- C8
\* C8: right after the invalidation of a context reset the table of pending
\* promises is empty, the queue is empty and the in-flight flag is false; a
\* request discarded from the queue by a reset is never written.
C8_ResetDiscardsAll ==
    /\ \A t \in Threads :
         (pc[t] = "sy_lock" /\ sreq[t].method = "__getBindings") =>
             (pending_promises = {} /\ async_queue = <<>> /\ ~async_inflight)
    /\ \A i \in Ids : Has("discard", i) => ~Has("write", i)

\* A reset has just discarded a queued request and the entry of the request
\* in flight.
C8_Witness ==
    /\ pc[MainThread] = "sy_lock"
    /\ sreq[MainThread].method = "__getBindings"
    /\ \E i, j \in Ids : Has("discard", i) /\ Has("write", j) /\ ~Has("drop", j) /\ ~Settled(j)

\* ------------------------------------------------------------- C9
\* C9: no continuation is resolved or rejected after a reset that ended its
\* context; the late reply to a request that was in flight at the reset
\* settles nothing.
C9_NoSettlementAfterReset ==
    \A k \in DOMAIN hist :
        hist[k].ev \in {"resolve", "reject"} =>
            \A j \in 1 .. (k - 1) : hist[j].ev = "reset" => hist[j].ctx <= hist[k].ctx

\* The reply to a request written before a reset was read after it and
\* dropped for want of an entry.
C9_Witness ==
    \E i \in Ids : \E j, k \in DOMAIN hist :
        /\ Has("write", i) /\ FirstIdx("write", i) < j
        /\ hist[j].ev = "reset"
        /\ j < k
        /\ hist[k] = Ev("drop", i, 0, "stale")
        /\ ~Settled(i)

\* ------------------------------------------------------------- C10
\* Thread t has written its sync request and not finished reading the reply.
InExchange(t) == pc[t] = "sy_read"

\* C10: at most one caller is between writing its sync request and the end
\* of its read, and the line a successful sync call returns is made of the
\* bytes, up to the newline, of the reply to its own request.
C10_SyncCallsExclusive ==
    /\ \A t, u \in Threads : (InExchange(t) /\ InExchange(u)) => t = u
    /\ \A t \in Threads :
         (pc[t] = "sy_ret" /\ sret[t].ok) =>
             /\ sret[t].nl = sreq[t]
             /\ \A n \in DOMAIN sret[t].bytes : sret[t].bytes[n].tok = sreq[t]
    /\ \A t \in Threads :
         InExchange(t) => \A n \in DOMAIN response[t] : response[t][n].tok = sreq[t]

\* One caller got the reply to its own request while another caller was in
\* its exchange, after waiting for the lock.
C10_Witness ==
    \E t, u \in Threads :
        /\ t # u
        /\ pc[t] = "sy_ret" /\ sret[t].ok /\ sret[t].nl = sreq[t]
        /\ InExchange(u)
        /\ sreq[u].method # "__getBindings" /\ sreq[t].method # "__getBindings"

\* ------------------------------------------------------------- C11
\* The kinds of value a declared type needs, with the kinds that stand for
\* "object or array" left open.
KindMatches(ftype, v, objectKinds) ==
    IF ftype = "string" THEN v.k = "string"
    ELSE IF ftype \in NumberTypes THEN v.k = "number"
    ELSE IF ftype = "bool" THEN v.k = "boolean"
    ELSE v.k \in objectKinds

\* The sync writes recorded for call id i.
SyncWrites(i) == {k \in DOMAIN hist : hist[k].ev = "swrite" /\ hist[k].id = i}

\* A setter call begins (and, on a mismatch, ends) in this step.
SetterCalled == arg' # arg /\ arg'.fn = "field_setter_callback"

\* The setter call with the kinds in objectKinds accepted for the declared
\* types the setter does not know: a mismatch raises the type error that
\* names field, declared type and observed kind, takes no call id and leaves
\* both channels and every thread where they were; a match raises nothing
\* and hands one __setField request to send_ipc_message_sync.
SetterValidates(objectKinds) ==
    SetterCalled =>
        IF KindMatches(arg'.ftype, arg'.value, objectKinds)
          THEN /\ ~res'.exception.thrown
               /\ pc'[MainThread] = "sy_lock"
               /\ sreq'[MainThread].method = "__setField"
               /\ UNCHANGED <<sync_wire, sync_stream, async_wire, hist>>
          ELSE /\ res'.done
               /\ res'.exception = [thrown |-> TRUE,
                                    what |-> "TypeError: Cannot assign to field",
                                    field |-> arg'.name, expected |-> arg'.ftype,
                                    got |-> ObservedKind(arg'.value)]
               /\ UNCHANGED <<sync_wire, sync_stream, async_wire, hist, pc, sreq,
                              call_counter>>

\* A setter call that was handed to the sync channel has returned.
SetterReturned ==
    res.done /\ arg.fn = "field_setter_callback" /\ ~res.exception.thrown

RECURSIVE ValueAsJson(_)
ValueAsJson(v) ==
    IF v.k = "string" THEN JString(v.s)
    ELSE IF v.k = "number" THEN JDouble(v.n)
    ELSE IF v.k = "boolean" THEN JBool(v.b)
    ELSE IF v.k = "object"
      THEN JObject([i \in DOMAIN v.members |->
                      [key |-> v.members[i].key, val |-> ValueAsJson(v.members[i].val)]])
    ELSE IF v.k = "array"
      THEN JArray([i \in DOMAIN v.elems |-> ValueAsJson(v.elems[i])])
    ELSE JNull

\* The setter accepted the value and its request is on its way.
SetterSending ==
    arg.fn = "field_setter_callback" /\ ~res.done /\ pc[MainThread] # "idle"

\* C12: the __setField request of an accepted value has params
\* [field_name, value], the second being the assigned value itself, whether
\* it is a string, a number, a boolean, an object or an array.
C12_ParamsCarryValue ==
    (SetterSending /\ arg.value.k \in {"string", "number", "boolean", "object", "array"})
        => /\ sreq[MainThread].method = "__setField"
           /\ sreq[MainThread].params = <<JString(arg.name), ValueAsJson(arg.value)>>

\* ------------------------------------------------------------- C13
\* The getter has returned after reading a reply line with an error member.
GetterReadError ==
    /\ res.done /\ arg.fn = "field_getter_callback_typed"
    /\ res.reply.ok
    /\ LineBody(res.reply.bytes).kind = "error"

\* C13: a __getField exchange whose reply line carries an error member with
\* message m ends in a rejection with message m for the reader of the field.
C13_ErrorReplyRejects ==
    GetterReadError =>
        /\ res.exception.thrown
        /\ res.exception.what = LineBody(res.reply.bytes).error

\* ------------------------------------------------------------- C14
\* The native value a JSON node stands for: the same kind, the same scalar,
\* the same members and elements.
RECURSIVE NativeOf(_)
NativeOf(n) ==
    IF n.node = "null" THEN JsNull
    ELSE IF n.node = "object"
      THEN JsObject([i \in DOMAIN n.members |->
                       [key |-> n.members[i].key, val |-> NativeOf(n.members[i].val)]])
    ELSE IF n.node = "array"
      THEN JsArray([i \in DOMAIN n.elems |-> NativeOf(n.elems[i])])
    ELSE IF n.gtype = "string" THEN JsString(n.s)
    ELSE IF n.gtype = "boolean" THEN JsBoolean(n.b)
    ELSE JsNumber(n.n)

\* async_read_callback has handled a line with a result member (and no
\* error member) for a call whose promise was stored.
AsyncGotResult ==
    /\ res.done /\ res.fn = "async_read_callback" /\ res.found
    /\ json_object_has_member(res.body, "result")
    /\ ~json_object_has_member(res.body, "error")

\* The field getter has returned after reading a line with a result member.
GetterGotResult ==
    /\ res.done /\ res.fn = "field_getter_callback_typed"
    /\ res.reply.ok
    /\ LineBody(res.reply.bytes).kind = "result"

\* C14: for a reply with a result member, the async callback resolves with,
\* and the field getter returns, the native value of the same kind: a string
\* for a string, the same number for an integer or a double, a boolean for
\* a boolean, null for null, a structurally equal object or array.
C14_SameConversionBothPaths ==
    /\ AsyncGotResult => res.calls.resolve = <<NativeOf(res.body.result)>>
    /\ GetterGotResult => res.value = NativeOf(LineBody(res.reply.bytes).result)

\* The callback resolved a call with the object {"a": [1, 2]} after a field
\* read went over the sync channel.
C14_Witness ==
    /\ AsyncGotResult
    /\ res.body.result = JObject(<<[key |-> "a", val |-> JArray(<<JInt(1), JInt(2)>>)]>>)
    /\ res.calls.resolve =
         <<JsObject(<<[key |-> "a", val |-> JsArray(<<JsNumber(1), JsNumber(2)>>)]>>)>>
    /\ \E k \in DOMAIN hist : hist[k].ev = "swrite" /\ hist[k].why = "__getField"

\* ------------------------------------------------------------- C15
\* async_read_callback has handled a line for a call whose promise was
\* stored.
AsyncSettled == res.done /\ res.fn = "async_read_callback" /\ res.found

\* The callback handles a parsed line while the promise of its call is stored.
SettlesStored ==
    /\ pc[MainThread] = "cb_settle" /\ pc'[MainThread] # "cb_settle"
    /\ HashHas(pending_promises, rctx[MainThread])

\* C15: a reply line for a call with a stored promise: with an error member
\* reject is called once with exactly that message and resolve is not
\* called; otherwise with a result member resolve is called once with the
\* converted value and reject is not called; either way the promise is
\* removed from the table.
C15_ReplySettlesByMember ==
    /\ [](AsyncSettled =>
            /\ json_object_has_member(res.body, "error") =>
                 /\ res.calls.reject = <<JsString(res.body.error)>>
                 /\ res.calls.resolve = <<>>
            /\ (~json_object_has_member(res.body, "error")
                  /\ json_object_has_member(res.body, "result")) =>
                 /\ res.calls.resolve = <<NativeOf(res.body.result)>>
                 /\ res.calls.reject = <<>>
            /\ ~HashHas(res.table, res.id))
    /\ [][SettlesStored =>
            /\ res'.done /\ res'.found /\ res'.id = rctx[MainThread]
            /\ res'.table = pending_promises'
            /\ ~HashHas(pending_promises', rctx[MainThread])]_vars

\* A line with the error member "boom" (and a result member beside it) was
\* handled for a stored promise: rejected with "boom", removed.
C15_Witness ==
    /\ AsyncSettled
    /\ res.body = [error |-> "boom", result |-> JInt(42)]
    /\ res.calls = [resolve |-> <<>>, reject |-> <<JsString("boom")>>]
    /\ ~HashHas(pending_promises, res.id)
    /\ \E k \in DOMAIN hist :
         hist[k].ev = "reject" /\ hist[k].id = res.id /\ hist[k].why = "remote"

\* ------------------------------------------------------------- C16
\* The page has called an installed stub.
StubCalled == res.done /\ res.fn = "go_method_callback_variadic"

\* The name a.b.c.
QualifiedName(a, b, c) == a \o "." \o b \o "." \o c

\* C16: the stub installed for method m of struct s in namespace n sends a
\* request whose method member is "n.s.m", the stub for method m of
\* sub-namespace u of the reserved namespace sends "strux.u.m", and each is
\* installed under the short name m.
C16_StubsSendQualifiedName ==
    StubCalled =>
        LET at == res.stub.at
        IN  /\ at[1] = "go" =>
                 /\ Len(at) = 4
                 /\ res.request.method = QualifiedName(at[2], at[3], at[4])
            /\ at[1] = "strux" =>
                 /\ Len(at) = 3
                 /\ res.request.method = QualifiedName("strux", at[2], at[3])

\* ------------------------------------------------------------- C17
\* What a schema declares, as the members of a graph that mirrors it: an
\* object per namespace and struct, a callable per method, an accessor pair
\* per field; the reserved namespace below its own root.
DeclaredMembers(bindings) ==
    UNION {
      IF bindings[i].key = "strux"
        THEN {[at |-> <<"strux">>, kind |-> "object"]}
               \cup UNION {
                 {[at |-> <<"strux", bindings[i].val[j].key>>, kind |-> "object"]}
                   \cup (IF "methods" \in DOMAIN bindings[i].val[j].val
                           THEN {[at |-> <<"strux", bindings[i].val[j].key,
                                          bindings[i].val[j].val.methods[k].name>>,
                                  kind |-> "function"] :
                                   k \in DOMAIN bindings[i].val[j].val.methods}
                           ELSE {}) :
                 j \in DOMAIN bindings[i].val}
        ELSE {[at |-> <<"go", bindings[i].key>>, kind |-> "object"]}
               \cup UNION {
                 {[at |-> <<"go", bindings[i].key, bindings[i].val[j].key>>,
                   kind |-> "object"]}
                   \cup (IF "methods" \in DOMAIN bindings[i].val[j].val
                           THEN {[at |-> <<"go", bindings[i].key, bindings[i].val[j].key,
                                          bindings[i].val[j].val.methods[k].name>>,
                                  kind |-> "function"] :
                                   k \in DOMAIN bindings[i].val[j].val.methods}
                           ELSE {})
                   \cup (IF "fields" \in DOMAIN bindings[i].val[j].val
                           THEN {[at |-> <<"go", bindings[i].key, bindings[i].val[j].key,
                                          bindings[i].val[j].val.fields[k].name>>,
                                  kind |-> "accessor"] :
                                   k \in DOMAIN bindings[i].val[j].val.fields}
                           ELSE {}) :
                 j \in DOMAIN bindings[i].val} :
      i \in DOMAIN bindings}

\* The members of the injected graph below its roots, by place and kind.
GraphMembers(g) == {[at |-> x.at, kind |-> x.kind] : x \in {y \in g : y.at # <<"go">>}}

\* C17: for any schema the injected graph mirrors it exactly: one object per
\* namespace and per struct, one callable per declared method, one accessor
\* pair per declared field, and no member the schema does not declare.
C17_GraphMirrorsSchema ==
    (res.done /\ arg.fn = "inject_bindings")
        => GraphMembers(res.graph) = DeclaredMembers(arg.bindings)

\* ------------------------------------------------------------- C18
\* The main loop runs one handler at a time, and a handler that reaches
\* start_next_async_request has first recorded either the "enq" of the stub
\* or what async_read_callback did with its line.  While "enq" is the last
\* event, the main loop is therefore still inside that stub's invocation,
\* and a rejection recorded right after the "enq" of the same call was made
\* before the stub returned.
InsideInvocation ==
    /\ hist # <<>> /\ hist[Len(hist)].ev = "enq"
    /\ pc[MainThread] # "idle"

\* The stub is at g_socket_client_connect or g_output_stream_write_all.
StubNeverAtTransportCall ==
    InsideInvocation =>
        /\ pc[MainThread] = "sn_connect" => async_connection
        /\ pc[MainThread] # "sn_write"

\* The promise of a call is not rejected by its own stub.
StubReturnsUnsettled ==
    \A k \in DOMAIN hist :
        (k < Len(hist) /\ hist[k].ev = "enq")
            => ~(/\ hist[k + 1].ev = "reject"
                 /\ hist[k + 1].id = hist[k].id
                 /\ hist[k + 1].why \in {"connect", "write"})

\* C18: the invocation of a method stub never waits on transport I/O and
\* the promise it returns is unsettled when it returns, whether the async
\* channel is connected, unreachable or failing on write.
C18_InvocationNeverBlocksNorSettles ==
    StubNeverAtTransportCall /\ StubReturnsUnsettled

\* ------------------------------------------------------------- C19
\* Thread t leaves connect_async_ipc / connect_sync_ipc in this step.
AsyncConnectReturns(t) == pc[t] = "sn_connect" /\ pc'[t] # "sn_connect"
SyncConnectReturns(t) == pc[t] = "sy_connect" /\ pc'[t] # "sy_connect"

\* C19: a channel's connection only goes from absent to present, and only
\* in a connect that succeeds; connect on a connected channel returns
\* success and leaves the connection as it is; a connect that fails leaves
\* it absent, so that the next call connects again; no failed write or read
\* takes a connection away.
C19_ConnectionOnlyGained ==
    [][/\ async_connection => async_connection'
       /\ sync_connection => sync_connection'
       /\ (~async_connection /\ async_connection') =>
            \E t \in Threads : AsyncConnectReturns(t) /\ pc'[t] = "sn_store_lock"
       /\ (~sync_connection /\ sync_connection') =>
            \E t \in Threads : SyncConnectReturns(t) /\ pc'[t] = "sy_write"
       /\ \A t \in Threads :
            /\ (AsyncConnectReturns(t) /\ async_connection) => pc'[t] = "sn_store_lock"
            /\ (AsyncConnectReturns(t) /\ pc'[t] = "sn_fail_lock") => ~async_connection'
            /\ (SyncConnectReturns(t) /\ sync_connection) => pc'[t] = "sy_write"
            /\ (SyncConnectReturns(t) /\ pc'[t] = "sy_ret") => ~sync_connection']_vars

\* The first call's connect failed, the second call connected and its write
\* failed: the async connection is still there; so is the sync connection
\* after its peer went away.
C19_Witness ==
    /\ \E j, k \in DOMAIN hist :
         /\ j < k
         /\ hist[j].ev = "reject" /\ hist[j].why = "connect"
         /\ hist[k].ev = "reject" /\ hist[k].why = "write"
    /\ async_connection
    /\ sync_connection /\ sync_eof
    /\ pc[MainThread] = "idle"

\* ------------------------------------------------------------- C20
\* The method calls made so far, by their place in the history.
AsyncCalls == {k \in DOMAIN hist : hist[k].ev = "enq"}

\* Thread t inserts the promise of its request into the table in this step.
InsertsPromise(t) == pc[t] = "sn_store" /\ pc'[t] # "sn_store"

\* C20: call ids come from one counter of the process that only grows; two
\* method calls, of the same or of different contexts, never carry the same
\* id; the table never holds two promises under one id, and an insert never
\* replaces a promise that is still stored.
C20_CallIdsUnique ==
    /\ [][call_counter' >= call_counter]_vars
    /\ [](\A j, k \in AsyncCalls : j # k => hist[j].id # hist[k].id)
    /\ [](\A j \in AsyncCalls : hist[j].id < call_counter)
    /\ [](\A p, q \in pending_promises : p.id = q.id => p = q)
    /\ [][\A t \in Threads :
            InsertsPromise(t) =>
                /\ ~HashHas(pending_promises, req[t].id)
                /\ HashHas(pending_promises', req[t].id)]_vars

\* Two method calls made in different contexts, with ids 0 and 1: the first
\* was written, the promise of the second is stored.
C20_Witness ==
    /\ \E j, k \in AsyncCalls :
         hist[j].id = 0 /\ hist[k].id = 1 /\ hist[j].ctx # hist[k].ctx
    /\ \E k \in DOMAIN hist : hist[k].ev = "write" /\ hist[k].id = 0
    /\ HashHas(pending_promises, 1)

\* ------------------------------------------------------------- C21
\* start_next_async_request rejected call i because its connect or its
\* write failed.
StartNextFailed(i) ==
    \E k \in DOMAIN hist :
        hist[k].ev = "reject" /\ hist[k].id = i /\ hist[k].why \in {"connect", "write"}

\* The main loop is in start_next_async_request again right after a failure.
RetryingAfterFailure ==
    /\ pc[MainThread] = "sn_pop"
    /\ hist # <<>>
    /\ hist[Len(hist)].ev = "reject"
    /\ hist[Len(hist)].why \in {"connect", "write"}

\* C21: when start_next_async_request has popped a request and its connect
\* or its write fails, reject is called for that request exactly once (and
\* resolve never), no entry of its id stays in the table, the in-flight flag
\* is cleared, and start_next_async_request runs again at once: it pops the
\* next queued request if there is one.
C21_FailureRejectsOnceAndRetries ==
    /\ [](\A i \in Ids : StartNextFailed(i) => Cardinality(SettleIdx(i)) = 1)
    /\ [](\A i \in Ids :
            (StartNextFailed(i) /\ pc[MainThread] \notin {"sn_wfail_lock", "sn_wfail"})
                => ~HashHas(pending_promises, i))
    /\ [][(pc[MainThread] = "sn_fail" /\ pc'[MainThread] # "sn_fail")
            => (~async_inflight' /\ pc'[MainThread] = "sn_lock")]_vars
    /\ [](RetryingAfterFailure => ~async_inflight)
    /\ [][(RetryingAfterFailure /\ async_queue # <<>> /\ pc'[MainThread] # "sn_pop")
            => (pc'[MainThread] = "sn_connect" /\ req'[MainThread] = Head(async_queue))]_vars

\* The write of call 1 failed while call 2 was queued: call 1 was rejected
\* and call 2 was written next.
C21_Witness ==
    \E k \in DOMAIN hist :
        /\ k < Len(hist)
        /\ hist[k].ev = "reject" /\ hist[k].id = 1 /\ hist[k].why = "write"
        /\ hist[k + 1].ev = "write" /\ hist[k + 1].id = 2
        /\ ~HashHas(pending_promises, 1)

\* ------------------------------------------------------------- C22
\* The reply line read for call i did not parse, or parsed to an object with
\* neither an error nor a result member while the promise was stored.
ProtocolViolation(i) ==
    \E k \in DOMAIN hist :
        hist[k].ev = "drop" /\ hist[k].id = i /\ hist[k].why \in {"malformed", "neither"}

\* The main loop is in start_next_async_request right after the callback
\* handled such a line.
DispatchingAfterViolation ==
    /\ pc[MainThread] = "sn_pop"
    /\ hist # <<>>
    /\ hist[Len(hist)].ev = "drop"
    /\ hist[Len(hist)].why \in {"malformed", "neither"}

\* C22: after a malformed reply line, or a reply object with neither an error
\* nor a result member, for an in-flight call, neither resolve nor reject of
\* that call is called at any time; the callback clears the in-flight flag and
\* runs start_next_async_request, which pops the next queued request if there
\* is one.
C22_ViolationSettlesNothingAndFreesSlot ==
    /\ [](\A i \in Ids : ProtocolViolation(i) => SettleIdx(i) = {})
    /\ [][(pc[MainThread] = "cb_settle" /\ line[MainThread].kind = "neither"
             /\ pc'[MainThread] # "cb_settle")
            => (hist' = hist \/ hist'[Len(hist')].ev = "drop")]_vars
    /\ [][(pc[MainThread] = "cb_done" /\ pc'[MainThread] # "cb_done")
            => (~async_inflight' /\ pc'[MainThread] = "sn_lock")]_vars
    /\ [](DispatchingAfterViolation => ~async_inflight)
    /\ [][(DispatchingAfterViolation /\ async_queue # <<>> /\ pc'[MainThread] # "sn_pop")
            => (pc'[MainThread] = "sn_connect" /\ req'[MainThread] = Head(async_queue))]_vars

\* Call 0 got a malformed line and call 1 an object with neither member; the
\* queued call after each was written next, and none of the two was settled.
C22_Witness ==
    \E k, m \in DOMAIN hist :
        /\ k < m /\ m < Len(hist)
        /\ hist[k].ev = "drop" /\ hist[k].id = 0 /\ hist[k].why = "malformed"
        /\ hist[k + 1].ev = "write" /\ hist[k + 1].id = 1
        /\ hist[m].ev = "drop" /\ hist[m].id = 1 /\ hist[m].why = "neither"
        /\ hist[m + 1].ev = "write" /\ hist[m + 1].id = 2

\* ------------------------------------------------------------- C23
\* Call i was written to the async channel.
WrittenAsync(i) == \E k \in DOMAIN hist : hist[k].ev = "write" /\ hist[k].id = i

\* The read of call i completed: with a line, whatever its content, or with
\* an error that found the promise.
ReplyOrErrorSeen(i) ==
    \E k \in DOMAIN hist :
        /\ hist[k].id = i
        /\ \/ hist[k].ev \in {"resolve", "drop"}
           \/ hist[k].ev = "reject" /\ hist[k].why \in {"remote", "read"}

\* C23: the table holds an entry for call id X only while request X has been
\* written to the async channel and neither its reply nor a transport error
\* has been handled; a context reset leaves no entry of the old context.
C23_EntryOnlyWhileWrittenAndUnanswered ==
    \A p \in pending_promises : WrittenAsync(p.id) /\ ~ReplyOrErrorSeen(p.id)

\* The same for the entries of answered calls alone: the reply removes the
\* entry.
C23_ReplyRemovesEntry ==
    \A p \in pending_promises : ~ReplyOrErrorSeen(p.id)

\* ------------------------------------------------------------- C24
\* The main loop is inside send_ipc_message_sync, between taking the lock
\* and the return.
InSyncCall == pc[MainThread] \in {"sy_connect", "sy_write", "sy_read"}

\* send_ipc_message_sync returns in this step.
SyncCallReturns == InSyncCall /\ pc'[MainThread] = "sy_ret"

\* The next byte of the sync stream is the newline that ends a reply.
NewlineNext ==
    pc[MainThread] = "sy_read" /\ sync_stream # <<>> /\ Head(sync_stream).nl

\* The writes of the request of accessor call i on the sync channel (the
\* schema request has the fixed id 0 and is not counted).
AccessorWrites(i) == {k \in SyncWrites(i) : hist[k].why # "__getBindings"}

\* A field getter returned after its sync call failed.
GetterSyncFailed ==
    res.done /\ res.fn = "field_getter_callback_typed" /\ ~res.reply.ok

\* C24: send_ipc_message_sync holds sync_mutex from its lock to its return
\* and never at or after the return, whether the connect, the write or the
\* read failed or the line was read; a failure returns NULL at once, the call
\* going neither back to the connect nor to the write, and writing its request
\* at most once; a field getter whose sync call failed returns undefined and
\* throws nothing.
C24_SyncLockReleasedOnEveryPath ==
    /\ [](InSyncCall <=> sync_mutex = MainThread)
    /\ [][SyncCallReturns =>
            /\ sync_mutex' = NoThread
            /\ (sret'[MainThread].ok => NewlineNext)
            /\ (~sret'[MainThread].ok => sret'[MainThread] = NoRet)]_vars
    /\ [][(pc[MainThread] = "sy_write" => pc'[MainThread] \in {"sy_write", "sy_read", "sy_ret"})
          /\ (pc[MainThread] = "sy_read" => pc'[MainThread] \in {"sy_read", "sy_ret"})
          /\ (pc[MainThread] = "sy_ret" => pc'[MainThread] \in {"sy_ret", "idle"})]_vars
    /\ [](\A i \in 0 .. MaxFieldCalls : Cardinality(AccessorWrites(i)) <= 1)
    /\ [](GetterSyncFailed => (res.value = JsUndefined /\ ~res.exception.thrown))

\* On the second page, whose load installed the bindings, a getter returned
\* after its sync call failed, with the lock free.
C24_Witness ==
    /\ GetterSyncFailed
    /\ curCtx = 2 /\ bindings_ctx = 2
    /\ sync_mutex = NoThread
    /\ pc[MainThread] = "idle"

\* ------------------------------------------------------------- C25
\* Thread t is at a connect or a write of the async channel (the read of the
\* async channel is started with read_line_async and completes in the main
\* loop, outside any function of the extension).
AtAsyncIO(t) == pc[t] \in {"sn_connect", "sn_write"}

\* Thread t is at the connect, the write or a read of the sync channel.
AtSyncIO(t) == pc[t] \in {"sy_connect", "sy_write", "sy_read"}

\* C25: a thread at a connect, a write or a read of either channel holds
\* neither async_mutex nor promises_mutex; at the I/O of the sync channel it
\* holds sync_mutex, and at the I/O of the async channel it does not.
C25_NoQueueOrTableLockAcrossIO ==
    \A t \in Threads :
        /\ (AtAsyncIO(t) \/ AtSyncIO(t)) => (async_mutex # t /\ promises_mutex # t)
        /\ AtSyncIO(t) => sync_mutex = t
        /\ AtAsyncIO(t) => sync_mutex # t

\* The main loop is at the write of a request whose entry it has stored,
\* having taken and given back both locks, after a sync call that held
\* sync_mutex over its connect, write and reads.
C25_Witness ==
    /\ pc[MainThread] = "sn_write"
    /\ HashHas(pending_promises, req[MainThread].id)
    /\ async_mutex = NoThread /\ promises_mutex = NoThread
    /\ bindings_ctx = curCtx /\ curCtx > 0

\* ------------------------------------------------------------- C26
\* The main loop is inside send_ipc_message_sync or about to return from it
\* to inject_bindings, get_field_value or set_field_value.
SyncCallRunning ==
    pc[MainThread] \in {"sy_lock", "sy_connect", "sy_write", "sy_read", "sy_ret"}

\* What a sync call has to leave alone.
AsyncSide == <<async_queue, async_inflight, pending_promises, async_connection>>

\* C26: from the call of send_ipc_message_sync to the return to its caller,
\* for the schema, a field read or a field write, the async queue, the
\* in-flight flag, the table and the async connection do not change; the call
\* takes sync_mutex and returns whatever the async queue and the in-flight
\* flag are, also while a request is in flight and another is queued.
C26_SyncCallLeavesAsyncSideAlone ==
    /\ [][SyncCallRunning => UNCHANGED AsyncSide]_vars
    /\ [](pc[MainThread] = "sy_lock" => ENABLED SyLock(MainThread))
    /\ [](pc[MainThread] = "sy_ret" => ENABLED SyRet(MainThread))

\* A field accessor's sync call got its reply while an async request was in
\* flight with its entry stored.
C26_Witness ==
    /\ pc[MainThread] = "sy_ret"
    /\ sret[MainThread].ok
    /\ sreq[MainThread].method \in {"__getField", "__setField"}
    /\ async_inflight
    /\ pending_promises # {}

\* ------------------------------------------------------------- C27
\* window_object_cleared_callback is in its two critical sections.
Invalidating == pc[MainThread] \in {"rs_plock", "rs_clear", "rs_qlock", "rs_drain"}

\* inject_bindings has not yet written the schema request of the context
\* just created.
SchemaRequestUnwritten ==
    /\ pc[MainThread] \in {"sy_lock", "sy_connect", "sy_write"}
    /\ sreq[MainThread].method = "__getBindings"

\* The index of the last context-cleared event.
LastReset ==
    IF \E k \in DOMAIN hist : hist[k].ev = "reset"
      THEN CHOOSE k \in DOMAIN hist :
             hist[k].ev = "reset" /\ \A m \in DOMAIN hist : hist[m].ev = "reset" => m <= k
      ELSE 0

\* A method call was made in the current context.
CalledInNewContext ==
    \E k \in DOMAIN hist : k > LastReset /\ hist[k].ev = "enq"

\* C27: at every context-cleared event the table is empty, the queue drained
\* and the in-flight flag false before inject_bindings writes the schema
\* request, and from then on the flag stays false as long as no method call
\* of the new context has been made, also while and after the read of a
\* request of the old context completes.
C27_InvalidationBeforeSchemaRequest ==
    /\ SchemaRequestUnwritten
         => (pending_promises = {} /\ async_queue = <<>> /\ ~async_inflight)
    /\ (LastReset > 0 /\ ~Invalidating /\ ~CalledInNewContext) => ~async_inflight

\* A request was in flight at the second context-cleared event; its late
\* reply was read and dropped afterwards, before any call of the new
\* context, and the flag is false.
C27_Witness ==
    /\ curCtx = 2
    /\ ~CalledInNewContext
    /\ hist[Len(hist)].ev = "drop" /\ hist[Len(hist)].why = "stale"
    /\ \E k \in DOMAIN hist : k < LastReset /\ hist[k].ev = "write"
                                /\ hist[k].id = hist[Len(hist)].id
    /\ pc[MainThread] = "idle"
    /\ ~async_inflight

\* ------------------------------------------------------------- C28
\* g_input_stream_read delivers the next byte of the sync stream in this step.
ByteRead ==
    /\ pc[MainThread] = "sy_read"
    /\ sync_stream # <<>>
    /\ sync_stream' = Tail(sync_stream)
    /\ ~sync_eof'

\* C28: send_ipc_message_sync starts with an empty response, appends every
\* byte it reads that is not a newline, in the order read and however many
\* they are, and returns the response as it stands when it reads the
\* newline; when a read fails or the stream ends first it returns NULL, with
\* nothing of the bytes read so far.
C28_SyncReplyIsTheWholeLine ==
    /\ [](pc[MainThread] \in {"sy_connect", "sy_write"} => response[MainThread] = <<>>)
    /\ [][(ByteRead /\ ~Head(sync_stream).nl)
            => /\ response'[MainThread] = Append(response[MainThread], Head(sync_stream))
               /\ pc'[MainThread] = "sy_read"]_vars
    /\ [][(ByteRead /\ Head(sync_stream).nl)
            => /\ pc'[MainThread] = "sy_ret"
               /\ sret'[MainThread].ok
               /\ sret'[MainThread].bytes = response[MainThread]]_vars
    /\ [][(InSyncCall /\ pc'[MainThread] = "sy_ret" /\ ~(ByteRead /\ Head(sync_stream).nl))
            => (~sret'[MainThread].ok /\ sret'[MainThread].bytes = <<>>)]_vars
    /\ [](pc[MainThread] = "sy_ret" /\ sret[MainThread].ok
            => \A k \in DOMAIN sret[MainThread].bytes : ~sret[MainThread].bytes[k].nl)

\* An accessor's sync call returned a line of MaxLineLen bytes.
C28_Witness ==
    /\ pc[MainThread] = "sy_ret"
    /\ sret[MainThread].ok
    /\ Len(sret[MainThread].bytes) = MaxLineLen

\* A read failed after a part of the line was read.
C28_PartialLineLost ==
    /\ pc[MainThread] = "sy_ret"
    /\ ~sret[MainThread].ok
    /\ response[MainThread] # <<>>

\* ------------------------------------------------------------- C29
\* The JSON text written for argument v is the literal of v's own kind and
\* value when v is a string, a number or a boolean, and null otherwise.
SameKindAndValue(v, p) ==
    LET text == json_generator_to_data(p)
    IN  IF jsc_value_is_string(v) THEN text = [lit |-> "string", s |-> v.s]
        ELSE IF jsc_value_is_number(v) THEN text = [lit |-> "number", n |-> v.n]
        ELSE IF jsc_value_is_boolean(v) THEN text = [lit |-> "boolean", b |-> v.b]
        ELSE text = [lit |-> "null"]

\* C29: the params array of a stub's request has one element per argument,
\* in the order of the arguments: the JSON string, number or boolean of the
\* same value for a string, number or boolean argument, and null for an
\* object, an array, a function, null or undefined.
C29_ParamsMirrorArguments ==
    StubCalled =>
        /\ Len(res.request.params) = Len(res.args)
        /\ \A k \in 1 .. Len(res.args) : SameKindAndValue(res.args[k], res.request.params[k])

\* A stub was called with a boolean and then an object.
C29_Witness ==
    /\ StubCalled
    /\ Len(res.args) = MaxArgs
    /\ jsc_value_is_boolean(res.args[1])
    /\ res.args[2].k = "object"
    /\ res.request.params[2] = JNull

\* ------------------------------------------------------------- C30
\* The calls of resolve and of reject made for call i.
ResolveIdx(i) == {k \in SettleIdx(i) : hist[k].ev = "resolve"}
RejectIdx(i) == {k \in SettleIdx(i) : hist[k].ev = "reject"}

\* C30: over any execution, from whichever threads and with whichever
\* connect failures, write failures, read failures, replies and context
\* resets, resolve and reject together are called at most once for a call:
\* never both, never resolve twice, never reject twice.
C30_SettledAtMostOnce ==
    \A i \in Ids :
        /\ Cardinality(ResolveIdx(i)) <= 1
        /\ Cardinality(RejectIdx(i)) <= 1
        /\ ResolveIdx(i) = {} \/ RejectIdx(i) = {}

\* Two calls were made, a context reset came after the first was written;
\* one was rejected by a transport failure and the other resolved by its
\* reply, each once.
C30_Witness ==
    /\ curCtx = MaxResets
    /\ \E i, j \in Ids :
         /\ i # j
         /\ Cardinality(RejectIdx(i)) = 1
         /\ hist[CHOOSE k \in RejectIdx(i) : TRUE].why \in {"connect", "write", "read"}
         /\ Cardinality(ResolveIdx(j)) = 1

\* ------------------------------------------------------------- C31
\* Thread t is about to settle the stored promise of the call its read
\* context names, with the result or the error of the line it read.
SettlingWithLine(t) ==
    /\ pc[t] = "cb_settle"
    /\ HashHas(pending_promises, rctx[t])
    /\ line[t].kind \in {"result", "error"}

\* C31: with a backend that answers the requests in the order received, the
\* line whose result resolves a call, or whose error rejects it, is the line
\* the backend sent in answer to the request of that same call, context
\* resets with a request in flight and later calls included.
C31_SettledWithOwnReply ==
    \A t \in Threads : SettlingWithLine(t) => line[t].for = rctx[t]

\* ------------------------------------------------------------- C32
\* C32: the table of pending promises never holds more than one entry, and
\* it is empty whenever the in-flight flag is false and no read is
\* outstanding, whatever the reply lines contained.
C32_TableAtMostOneAndEmptyWhenIdle ==
    /\ Cardinality(pending_promises) <= 1
    /\ (~async_inflight /\ reads = <<>>) => pending_promises = {}

\* The second half alone.
C32_EmptyWhenIdle ==
    (~async_inflight /\ reads = <<>>) => pending_promises = {}

\* The first half alone.
C32_AtMostOne == Cardinality(pending_promises) <= 1

\* ------------------------------------------------------------- C33
\* Thread t is inside send_ipc_message_async, start_next_async_request,
\* async_read_callback or the invalidation of window_object_cleared_callback.
InAsyncCode(t) ==
    pc[t] \notin {"idle", "sy_lock", "sy_connect", "sy_write", "sy_read", "sy_ret"}

\* C33: whenever no thread is inside the enqueue, start_next, the read
\* callback or the context reset, a non-empty queue comes with a true
\* in-flight flag, under any interleaving of the threads.
C33_NoWorkWithFreeSlot ==
    (\A t \in Threads : ~InAsyncCode(t)) => (async_queue # <<>> => async_inflight)

\* A request waits in the queue with the flag true while no thread is in the
\* async code, after the read completion of the request before it was
\* handled.
C33_Witness ==
    /\ \A t \in Threads : ~InAsyncCode(t)
    /\ async_queue # <<>>
    /\ async_inflight
    /\ \E k \in DOMAIN hist :
         \/ hist[k].ev \in {"resolve", "drop"}
         \/ hist[k].ev = "reject" /\ hist[k].why \in {"remote", "read"}

\* ------------------------------------------------------------- C34
\* The locks thread t holds.
LocksHeld(t) ==
    {m \in {"sync_mutex", "async_mutex", "promises_mutex"} :
        \/ m = "sync_mutex" /\ sync_mutex = t
        \/ m = "async_mutex" /\ async_mutex = t
        \/ m = "promises_mutex" /\ promises_mutex = t}

\* Thread t is at a g_mutex_lock.
AtLock(t) ==
    pc[t] \in {"enq_lock", "sn_lock", "sn_fail_lock", "sn_store_lock", "sn_wfail_lock",
               "cb_err_lock", "cb_lock", "cb_done_lock", "rs_plock", "rs_qlock", "sy_lock"}

\* C34: no thread holds two of sync_mutex, async_mutex and promises_mutex at
\* once; a thread that is at a g_mutex_lock holds no lock, so no thread waits
\* for a lock while keeping another thread waiting.
C34_NeverTwoLocks ==
    \A t \in Threads :
        /\ Cardinality(LocksHeld(t)) <= 1
        /\ AtLock(t) => LocksHeld(t) = {}

\* One thread holds sync_mutex in a sync call while the other holds
\* promises_mutex in the read callback.
C34_Witness ==
    \E t, u \in Threads :
        /\ t # u
        /\ sync_mutex = t /\ pc[t] = "sy_read"
        /\ promises_mutex = u /\ pc[u] = "cb_settle"

\* ------------------------------------------------------------- C35
\* The method stubs of the injected graph.
InstalledStubs ==
    IF res.done /\ "graph" \in DOMAIN res
      THEN {x \in res.graph : x.kind = "function"}
      ELSE {}

\* C35: for any schema, two method stubs installed at different places of
\* the graph send requests with different method members.
C35_DistinctStubsDistinctNames ==
    \A x, y \in InstalledStubs :
        x.at # y.at => StubRequest(x, 0, <<>>).method # StubRequest(y, 0, <<>>).method

====
